---- MODULE Spec2Model ----
(***************************************************************************)
(* Verification model of kobodown: the credential state machine            *)
(* (src/session.rs over src/config.rs) and the authenticated transport     *)
(* pipeline (src/kobo.rs).                                                 *)
(*                                                                         *)
(* Strings are sequences of byte values.  An Option<T> is a sequence of    *)
(* length 0 (None) or 1 (Some(x)).                                         *)
(***************************************************************************)
EXTENDS Integers, Sequences, FiniteSets, TLC

VARIABLES
    store,      \* Config: the JSON object holding the five credential fields
    last,       \* the last SessionAdapter call: name, arguments, store before it
    dirty,      \* the operation in progress changed the store and has not
                \* saved it since
    settings,   \* Kobo.settings: TRUE when the endpoint templates are cached
    cookies,    \* Kobo.cookies: the cookie jar
    pc,         \* position of the running operation ("idle" when none runs)
    stack,      \* return positions of the calls in progress, innermost first
    op,         \* the public operation in progress
    tgt,        \* parts/body of the target request of the authenticated call
    rq,         \* raw_request: the request about to be sent and its URL
    hops,       \* raw_request: redirects followed so far
    wire,       \* the request the Transport holds (None when it holds none)
    ret,        \* raw_request: the response last received (res), also its return value
    resUrl,     \* raw_request: URL of the request that produced ret
    authHdr,    \* header returned by get_authorization / refresh_auth
    ukey,       \* authenticate_device: the user_key argument, normalised
    sends,      \* times the target request was handed to raw_request in this call
    firstStatus,\* final status of the first send of the target request; for
                \* download, the status of its one answer
    refreshed,  \* what the last token refresh of this call answered and found
    calls,      \* Transport calls made by the operation in progress
    result,     \* what the last public operation returned
    locals,     \* locals of the public operation in progress (see NoLocals)
    obs         \* what has been observed of the run so far (see NoObs)

sessVars == <<store, last>>
pipeVars == <<dirty, settings, cookies, pc, stack, op, tgt, rq, hops, wire, ret,
              resUrl, authHdr, ukey, sends, firstStatus, refreshed, calls, result,
              locals, obs>>
vars == <<store, last, dirty, settings, cookies, pc, stack, op, tgt, rq, hops,
          wire, ret, resUrl, authHdr, ukey, sends, firstStatus, refreshed, calls,
          result, locals, obs>>

-----------------------------------------------------------------------------
(* Options and strings *)

None == << >>
Some(x) == <<x>>
IsSome(o) == Len(o) = 1
IsNone(o) == Len(o) = 0
Unwrap(o) == o[1]

EmptyString == << >>
is_empty(s) == Len(s) = 0

\* NonEmptyStr::new / NonEmptyStr::from_string
NonEmptyStr_new(s) == IF is_empty(s) THEN None ELSE Some(s)

-----------------------------------------------------------------------------
(* Config: the SessionStore of the repository *)

Fields == {"DeviceId", "AccessToken", "RefreshToken", "UserId", "UserKey"}

\* Config::gets: a stored string is returned only when it is non-empty
gets(st, name) ==
    IF IsSome(st[name]) THEN NonEmptyStr_new(Unwrap(st[name])) ELSE None

\* Config::dels
dels(st, name) == [st EXCEPT ![name] = None]

\* Config::set
set(st, name, v) == [st EXCEPT ![name] = Some(v)]

\* Config::sets: an empty or missing value removes the entry
sets(st, name, value) ==
    IF IsSome(value) /\ IsSome(NonEmptyStr_new(Unwrap(value)))
    THEN set(st, name, Unwrap(value))
    ELSE dels(st, name)

-----------------------------------------------------------------------------
(* SessionAdapter *)

is_auth_set(st) ==
    /\ IsSome(gets(st, "AccessToken"))
    /\ IsSome(gets(st, "DeviceId"))
    /\ IsSome(gets(st, "RefreshToken"))

is_logged_in(st) ==
    is_auth_set(st) /\ IsSome(gets(st, "UserKey")) /\ IsSome(gets(st, "UserId"))

access_token_unguarded(st) == gets(st, "AccessToken")

access_token(st) ==
    IF IsSome(gets(st, "DeviceId")) /\ IsSome(gets(st, "RefreshToken"))
    THEN gets(st, "AccessToken")
    ELSE None

device_id(st) == gets(st, "DeviceId")

refresh_token(st) ==
    IF IsSome(gets(st, "AccessToken")) /\ IsSome(gets(st, "DeviceId"))
    THEN gets(st, "RefreshToken")
    ELSE None

user_key_half_guarded(st) ==
    IF /\ IsSome(gets(st, "AccessToken"))
       /\ IsSome(gets(st, "DeviceId"))
       /\ IsSome(gets(st, "RefreshToken"))
    THEN gets(st, "UserKey")
    ELSE None

user_key(st) ==
    IF /\ IsSome(gets(st, "AccessToken"))
       /\ IsSome(gets(st, "DeviceId"))
       /\ IsSome(gets(st, "RefreshToken"))
       /\ IsSome(gets(st, "UserId"))
    THEN gets(st, "UserKey")
    ELSE None

user_id(st) ==
    IF /\ IsSome(gets(st, "AccessToken"))
       /\ IsSome(gets(st, "DeviceId"))
       /\ IsSome(gets(st, "RefreshToken"))
       /\ IsSome(gets(st, "UserKey"))
    THEN gets(st, "UserId")
    ELSE None

set_device_id_keep(st, s) == sets(st, "DeviceId", Some(s))

set_device_id(st, s) ==
    dels(dels(dels(dels(sets(st, "DeviceId", Some(s)),
        "AccessToken"), "RefreshToken"), "UserKey"), "UserId")

\* a set_user_key that stores nothing
set_user_key_ignored(st, s) == st

set_user_key(st, s) == dels(sets(st, "UserKey", Some(s)), "UserId")

set_user_id(st, s) == sets(st, "UserId", Some(s))

refresh_tokens_clearing_user(st, access, refresh) ==
    IF is_empty(access) THEN st
    ELSE IF is_empty(refresh) THEN st
    ELSE dels(dels(sets(sets(st, "AccessToken", Some(access)),
                        "RefreshToken", Some(refresh)),
                   "UserKey"), "UserId")

refresh_tokens_unguarded(st, access, refresh) ==
    sets(sets(st, "AccessToken", Some(access)), "RefreshToken", Some(refresh))

refresh_tokens(st, access, refresh) ==
    IF is_empty(access) THEN st
    ELSE IF is_empty(refresh) THEN st
    ELSE sets(sets(st, "AccessToken", Some(access)), "RefreshToken", Some(refresh))

set_tokens_keep_user(st, access, refresh) ==
    IF is_empty(access) THEN st
    ELSE IF is_empty(refresh) THEN st
    ELSE sets(sets(st, "AccessToken", Some(access)), "RefreshToken", Some(refresh))

\* a set_tokens that takes a new pair of tokens for a new device
set_tokens_new_device(st, access, refresh) ==
    IF is_empty(access) THEN st
    ELSE IF is_empty(refresh) THEN st
    ELSE dels(dels(dels(sets(sets(st, "AccessToken", Some(access)),
                             "RefreshToken", Some(refresh)),
                        "UserKey"), "UserId"), "DeviceId")

set_tokens(st, access, refresh) ==
    IF is_empty(access) THEN st
    ELSE IF is_empty(refresh) THEN st
    ELSE dels(dels(sets(sets(st, "AccessToken", Some(access)),
                        "RefreshToken", Some(refresh)),
                   "UserKey"), "UserId")

-----------------------------------------------------------------------------
(* HTTP values: header values, URLs, statuses *)

\* http::HeaderValue::from_str accepts a byte when it is a tab or is at least
\* 32 and not 127 (DEL)
is_valid_header_byte(b) == b = 9 \/ (b >= 32 /\ b # 127)

HeaderValue_from_str(s) ==
    IF \A i \in 1..Len(s) : is_valid_header_byte(s[i]) THEN Some(s) ELSE None

\* format!("Bearer {s}")
Bearer(s) == <<66, 101, 97, 114, 101, 114, 32>> \o s

\* session.access_token().and_then(|s| HeaderValue::from_str(&format!("Bearer {s}")).ok())
bearer_header(st) ==
    IF IsSome(access_token(st))
    THEN HeaderValue_from_str(Bearer(Unwrap(access_token(st))))
    ELSE None

is_redirection(status) == 300 <= status /\ status <= 399
is_success_or_redirection(status) == 200 <= status /\ status <= 399
is_success(status) == 200 <= status /\ status <= 299

Url(host, path) == [host |-> host, path |-> path]

\* HeaderValue::to_str: only visible ASCII converts to a string
to_str_ok(loc) == loc.kind # "opaque"

\* Url::join: a relative reference keeps the host of the base, an absolute one
\* replaces it, a malformed one does not resolve
Url_join(base, loc) ==
    CASE loc.kind = "relative" -> Some(Url(base.host, loc.path))
      [] loc.kind = "absolute" -> Some(Url(loc.host, loc.path))
      [] OTHER -> None

RECURSIVE FirstResolved(_, _)
FirstResolved(url, locs) ==
    IF locs = << >> THEN None
    ELSE IF to_str_ok(Head(locs)) /\ IsSome(Url_join(url, Head(locs)))
         THEN Url_join(url, Head(locs))
         ELSE FirstResolved(url, Tail(locs))

ResolveLocation_first_header_only(url, locs) ==
    IF locs = << >> THEN None
    ELSE IF to_str_ok(Head(locs)) THEN Url_join(url, Head(locs)) ELSE None

\* the Location of a response that raw_request follows: the first header
\* value that converts to a string and joins with the request URL
ResolveLocation(url, locs) == FirstResolved(url, locs)

-----------------------------------------------------------------------------
(* Headers: a map from lower-cased header name to value *)

AFFILIATE == "Kobo"
APPLICATION_VERSION == "10.1.2.39807"
DEFAULT_PLATFORM_ID == "00000000-0000-0000-0000-000000004000"
CARRIER_NAME == "310270"
DEVICE_MODEL == "Pixel"
DEVICE_OS_VERSION == "33"
USER_AGENT == "Mozilla/5.0 (Linux; Android 13; Pixel Build/TQ2B.230505.005.A1; wv) AppleWebKit/537.36 (KHTML, like Gecko) Version/4.0 Chrome/101.0.4951.61 Safari/537.36 KoboApp/10.1.2.39807 KoboPlatform Id/00000000-0000-0000-0000-000000004000 KoboAffiliate/Kobo KoboBuildFlavor/global"

NoHeaders == [n \in {} |-> ""]

\* HeaderMap::insert: the value replaces whatever the name held
HeaderInsert(h, name, value) ==
    [n \in DOMAIN h \cup {name} |-> IF n = name THEN value ELSE h[n]]

\* a header map that keeps the caller's value when the name is already set
HeaderInsertIfAbsent(h, name, value) ==
    IF name \in DOMAIN h THEN h ELSE HeaderInsert(h, name, value)

default_headers_keep_caller(h) ==
    HeaderInsertIfAbsent(HeaderInsertIfAbsent(HeaderInsertIfAbsent(
    HeaderInsertIfAbsent(HeaderInsertIfAbsent(HeaderInsertIfAbsent(
    HeaderInsertIfAbsent(HeaderInsertIfAbsent(HeaderInsertIfAbsent(
    HeaderInsertIfAbsent(h,
        "user-agent", USER_AGENT),
        "x-kobo-affiliatename", AFFILIATE),
        "x-kobo-appversion", APPLICATION_VERSION),
        "x-kobo-platformid", DEFAULT_PLATFORM_ID),
        "x-kobo-carriername", CARRIER_NAME),
        "x-kobo-devicemodel", DEVICE_MODEL),
        "x-kobo-deviceos", "Android"),
        "x-kobo-deviceosversion", DEVICE_OS_VERSION),
        "x-requested-with", "com.kobobooks.android"),
        "accept-encoding", "gzip, deflate")

default_headers(h) ==
    HeaderInsert(HeaderInsert(HeaderInsert(HeaderInsert(HeaderInsert(
    HeaderInsert(HeaderInsert(HeaderInsert(HeaderInsert(HeaderInsert(h,
        "user-agent", USER_AGENT),
        "x-kobo-affiliatename", AFFILIATE),
        "x-kobo-appversion", APPLICATION_VERSION),
        "x-kobo-platformid", DEFAULT_PLATFORM_ID),
        "x-kobo-carriername", CARRIER_NAME),
        "x-kobo-devicemodel", DEVICE_MODEL),
        "x-kobo-deviceos", "Android"),
        "x-kobo-deviceosversion", DEVICE_OS_VERSION),
        "x-requested-with", "com.kobobooks.android"),
        "accept-encoding", "gzip, deflate")

\* IntoRequest::into_request for the bodies the pipeline sends: (), Json, Form.
\* Json and Form add their Content-Type when the request has none.
into_request(body, h) ==
    CASE body = "json" ->
            HeaderInsertIfAbsent(h, "content-type", "application/json; charset=utf-8")
      [] body = "form" ->
            HeaderInsertIfAbsent(h, "content-type",
                "application/x-www-form-urlencoded; charset=utf-8")
      [] OTHER -> h

-----------------------------------------------------------------------------
(* Cookies *)

is_ascii_alphanumeric(b) ==
    (48 <= b /\ b <= 57) \/ (65 <= b /\ b <= 90) \/ (97 <= b /\ b <= 122)

is_tchar(b) ==
    \/ b \in {33, 35, 36, 37, 38}
    \/ b \in {39, 42, 43, 45, 46}
    \/ b \in {94, 95, 96, 124, 126}
    \/ is_ascii_alphanumeric(b)

is_valid_name(b) == is_tchar(b)

is_ascii(b) == b <= 127
is_ascii_control(b) == b <= 31 \/ b = 127
is_ascii_whitespace(b) == b \in {32, 9, 10, 12, 13}

is_valid_value(b) ==
    /\ is_ascii(b)
    /\ ~is_ascii_control(b)
    /\ ~is_ascii_whitespace(b)
    /\ b # 34
    /\ b # 44
    /\ b # 59
    /\ b # 92

is_cookie_name_compliant(cookie) ==
    \A i \in 1..Len(cookie.name) : is_valid_name(cookie.name[i])

is_cookie_rfc_compliant(cookie) ==
    IF ~(\A i \in 1..Len(cookie.name) : is_valid_name(cookie.name[i])) THEN FALSE
    ELSE IF ~(\A i \in 1..Len(cookie.value) : is_valid_value(cookie.value[i])) THEN FALSE
    ELSE TRUE

\* CookieStore::matches: the stored cookies whose domain is the URL's host
matches(jar, url) == {c \in jar : c.host = url.host}

\* cookie.stripped(): the name=value pair, without attributes
stripped(cookie) == [name |-> cookie.name, value |-> cookie.value]

\* the pairs push_cookies writes into the Cookie header of a request to url
cookie_pairs(jar, url) ==
    {stripped(c) : c \in {m \in matches(jar, url) : is_cookie_rfc_compliant(m)}}

push_cookies(jar, url, h) == HeaderInsert(h, "cookie", cookie_pairs(jar, url))

\* CookieStore::store_response_cookies: a cookie replaces the stored one of
\* the same name and domain
pull_cookies(jar, url, set_cookie) ==
    {c \in jar : ~(\E n \in set_cookie : c.host = url.host /\ c.name = n.name)}
        \cup {[name |-> n.name, value |-> n.value, host |-> url.host] : n \in set_cookie}

-----------------------------------------------------------------------------
(* Values the model draws strings from *)

\* "a" and "b": non-empty strings that are valid header values
StrA == <<97>>
StrB == <<98>>
\* a non-empty string holding a line feed: no header value can be built from it
StrLF == <<10>>

SessStrings == {EmptyString, StrA, StrB}

OptionOf(S) == {None} \cup {Some(s) : s \in S}

\* requests, responses and results
Request(method, url, headers, body) ==
    [method |-> method, url |-> url, headers |-> headers, body |-> body]

\* a request made from the one sent before it: its headers and body stay
mkreq_carrying(method, url) == [rq EXCEPT !.method = method, !.url = url]

\* mkreq: an empty request with the method and the URI
mkreq(method, url) == Request(method, url, NoHeaders, "unit")

NoUrl == Url("", "")
NoReq == Request("", NoUrl, NoHeaders, "unit")

\* A response body, by what the codecs and parsers of the pipeline find in it:
\* kind says which JSON document it is ("junk": none the pipeline knows);
\* token_type, access, refresh, user_key are the fields of a token answer;
\* workflow and csrf are the values of the two inputs of the sign-in form
\* (None: form, input or value attribute missing); href is what evaluating the
\* scripts of the page gives for location.href ("none", "unparsable" or "url"),
\* user_id and user_key the query parameters userId and userKey of that URL;
\* books are the entries of a catalog page.  sync and synctoken are not of the
\* body: they are the response headers x-kobo-sync ("none" when absent,
\* "continue", or "other" for any other value) and x-kobo-synctoken.
JunkBody ==
    [kind |-> "junk", token_type |-> "", access |-> EmptyString,
     refresh |-> EmptyString, user_key |-> None, workflow |-> None, csrf |-> None,
     href |-> "none", user_id |-> None, sync |-> "none", synctoken |-> None,
     books |-> << >>]
SettingsBody == [JunkBody EXCEPT !.kind = "settings"]
BookBody == [JunkBody EXCEPT !.kind = "book"]
AccessBody == [JunkBody EXCEPT !.kind = "access"]
CatalogPage(sync, synctoken, books) ==
    [JunkBody EXCEPT !.kind = "books", !.sync = sync, !.synctoken = synctoken,
                     !.books = books]
TokenBody(tt, access, refresh, uk) ==
    [JunkBody EXCEPT !.kind = "tokens", !.token_type = tt, !.access = access,
                     !.refresh = refresh, !.user_key = uk]
SignInPage(workflow, csrf) ==
    [JunkBody EXCEPT !.kind = "html", !.workflow = workflow, !.csrf = csrf]
ResultPage(href, id, key) ==
    [JunkBody EXCEPT !.kind = "html", !.href = href, !.user_id = id,
                     !.user_key = key]

NoRet == [status |-> 0, locs |-> << >>, body |-> JunkBody]
NoStore == [f \in Fields |-> None]
NoRefresh ==
    [done |-> FALSE, access |-> EmptyString, refresh |-> EmptyString, pre |-> NoStore]

Ok == [ok |-> TRUE, err |-> "", status |-> 200]
Err(e) == [ok |-> FALSE, err |-> e, status |-> 0]
StatusCode(status) == [ok |-> FALSE, err |-> "StatusCode", status |-> status]
NoResult == Err("none")

\* observations: the store when the operation began; the passes through the
\* loop of get_authorization since then; the outcome of the last save(); the
\* store and the count of Transport calls when authenticate_device was last
\* entered; the successful fetches of the initialization endpoint; the
\* catalog pages decoded by the listing in progress, each with its books and
\* the continuation token it returned
NoObs ==
    [begin |-> NoStore, iters |-> 0, saved |-> "none", authPre |-> NoStore,
     authCalls |-> 0, fetches |-> 0, synced |-> << >>]

\* locals of the public operation in progress: login's user_id (from the
\* destination URL), _book_list's token, the pages it has fetched and its res
NoLocals == [user_id |-> None, token |-> None, pages |-> 0, res |-> << >>]

\* the pipeline at rest: no operation runs, nothing is cached or in flight
PipeAtRest ==
    /\ dirty = FALSE
    /\ settings = FALSE
    /\ cookies = {}
    /\ pc = "idle"
    /\ stack = << >>
    /\ op = "none"
    /\ tgt = NoReq
    /\ rq = NoReq
    /\ hops = 0
    /\ wire = None
    /\ ret = NoRet
    /\ resUrl = NoUrl
    /\ authHdr = None
    /\ ukey = None
    /\ sends = 0
    /\ firstStatus = 0
    /\ refreshed = NoRefresh
    /\ calls = 0
    /\ result = NoResult
    /\ locals = NoLocals
    /\ obs = NoObs

-----------------------------------------------------------------------------
(* The environment: what the server and the SessionStore may answer *)

\* redirects one raw_request call is made to follow at most
MaxHops == 2
\* the count of Transport calls of one operation stops growing here
MaxCalls == 3

ApiHost == "storeapi.kobo.com"
OtherHost == "cdn.example"
InitUrl == Url(ApiHost, "/v1/initialization")
DeviceAuthUrl == Url(ApiHost, "/v1/auth/device")
RefreshUrl == Url(ApiHost, "/v1/auth/refresh")
BookUrl == Url(ApiHost, "/v1/products/books/1")
FileUrl == Url(OtherHost, "/file")

RelLoc == [kind |-> "relative", host |-> "", path |-> "/moved"]
AbsLoc == [kind |-> "absolute", host |-> OtherHost, path |-> "/moved"]
BadLoc == [kind |-> "unresolvable", host |-> "", path |-> ""]
OpaqueLoc == [kind |-> "opaque", host |-> "", path |-> ""]

\* a Transport failure, written as an answer without status
TransportFailure ==
    [status |-> 0, locs |-> << >>, set_cookie |-> {}, body |-> JunkBody]
IsTransportError(o) == o.status = 0

\* the answers built from the given statuses, Location lists, Set-Cookie
\* sets and bodies; only a 200 answer carries a body anyone reads
Outcomes(statuses, locs, jars, bodies) ==
    {TransportFailure} \cup
    {r \in [status : statuses, locs : locs, set_cookie : jars, body : bodies] :
        r.status # 200 => r.body = JunkBody}

Inc(n) == IF n < MaxCalls THEN n + 1 ELSE n

-----------------------------------------------------------------------------
(* Control: calls, returns and the end of an operation *)

CallTo(label, back) == pc' = label /\ stack' = <<back>> \o stack
Goto(label) == pc' = label /\ UNCHANGED stack
ReturnToCaller == pc' = Head(stack) /\ stack' = Tail(stack)

\* the public operation ends with r: every `?` on the way up hands an error
\* to the caller unchanged, so an error ends the operation where it arises
Finish(r) ==
    /\ pc' = "idle"
    /\ stack' = << >>
    /\ result' = r
    /\ tgt' = NoReq
    /\ rq' = NoReq
    /\ hops' = 0
    /\ wire' = None
    /\ ret' = NoRet
    /\ resUrl' = NoUrl
    /\ authHdr' = None
    /\ ukey' = None

\* a public operation starts
Begin(name) ==
    /\ pc = "idle"
    /\ op' = name
    /\ sends' = 0
    /\ firstStatus' = 0
    /\ refreshed' = NoRefresh
    /\ dirty' = FALSE
    /\ locals' = NoLocals
    /\ obs' = [obs EXCEPT !.begin = store, !.iters = 0, !.saved = "none",
                          !.authPre = NoStore, !.authCalls = 0, !.synced = << >>]

-----------------------------------------------------------------------------
(* raw_request *)

\* lines 268-273: fixed headers, body codec, cookies, hand over to Transport
RawRequestSend ==
    /\ pc = "raw_request"
    /\ wire' = Some([kind |-> "request",
                     method |-> rq.method,
                     url |-> rq.url,
                     headers |-> push_cookies(cookies, rq.url,
                                    into_request(rq.body, default_headers(rq.headers))),
                     body |-> IF rq.body = "unit" THEN "None" ELSE "Data"])
    /\ calls' = Inc(calls)
    /\ hops' = 0
    /\ Goto("raw_request_recv")
    /\ UNCHANGED <<store, last, dirty, settings, cookies, op, tgt, rq, ret, resUrl,
                   authHdr, ukey, sends, firstStatus, refreshed, result>>
    /\ UNCHANGED <<locals, obs>>

\* what raw_request does with an answer (lines 273-296 and 302-325)
RawRequestAnswer(o) ==
    IF IsTransportError(o)
    THEN /\ Finish(Err("Transport"))
         /\ UNCHANGED <<store, last, dirty, settings, cookies, op, sends,
                        firstStatus, refreshed, calls>>
    ELSE /\ cookies' = pull_cookies(cookies, rq.url, o.set_cookie)
         /\ ret' = [status |-> o.status, locs |-> o.locs, body |-> o.body]
         /\ resUrl' = rq.url
         /\ wire' = None
         /\ IF ~is_redirection(o.status)
            THEN ReturnToCaller /\ UNCHANGED <<rq, hops>>
            ELSE IF IsNone(ResolveLocation(rq.url, o.locs))
            THEN ReturnToCaller /\ UNCHANGED <<rq, hops>>
            ELSE /\ rq' = mkreq("GET", Unwrap(ResolveLocation(rq.url, o.locs)))
                 /\ hops' = hops + 1
                 /\ Goto("raw_request_loop")
         /\ UNCHANGED <<store, last, dirty, settings, op, tgt, authHdr, ukey, sends,
                        firstStatus, refreshed, calls, result>>

\* an answer the server gives while at most MaxHops redirects are followed
Allowed(o) ==
    hops < MaxHops \/ ~(is_redirection(o.status) /\ IsSome(ResolveLocation(rq.url, o.locs)))

RawRequestRecv(answers) ==
    /\ pc = "raw_request_recv"
    /\ \E o \in answers : Allowed(o) /\ RawRequestAnswer(o)
    /\ UNCHANGED <<locals, obs>>

\* lines 297-302: the follow-up GET
RawRequestFollow ==
    /\ pc = "raw_request_loop"
    /\ wire' = Some([kind |-> "request",
                     method |-> rq.method,
                     url |-> rq.url,
                     headers |-> push_cookies(cookies, rq.url,
                                    into_request(rq.body, default_headers(rq.headers))),
                     body |-> IF rq.body = "unit" THEN "None" ELSE "Data"])
    /\ calls' = Inc(calls)
    /\ Goto("raw_request_loop_recv")
    /\ UNCHANGED <<store, last, dirty, settings, cookies, op, tgt, rq, hops, ret,
                   resUrl, authHdr, ukey, sends, firstStatus, refreshed, result>>
    /\ UNCHANGED <<locals, obs>>

RawRequestFollowRecv(answers) ==
    /\ pc = "raw_request_loop_recv"
    /\ \E o \in answers : Allowed(o) /\ RawRequestAnswer(o)
    /\ UNCHANGED <<locals, obs>>

-----------------------------------------------------------------------------
(* The authenticated call: _anon_raw_request and _raw_request *)

WithAuth(req, h) ==
    [req EXCEPT !.headers = HeaderInsert(req.headers, "authorization", h)]

needs_refresh_on_any_failure(status) == status # 200

\* `if res.status() != UNAUTHORIZED { return Ok(res) }`
needs_refresh(status) == status = 401

\* _anon_raw_request, lines 349-352
AnonStart ==
    /\ pc = "_anon_raw_request"
    /\ sends' = 0
    /\ firstStatus' = 0
    /\ refreshed' = NoRefresh
    /\ CallTo("get_authorization", "anon_first")
    /\ UNCHANGED <<store, last, dirty, settings, cookies, op, tgt, rq, hops, wire,
                   ret, resUrl, authHdr, ukey, calls, result>>
    /\ UNCHANGED <<locals, obs>>

\* lines 353-355: the first send
AnonFirst ==
    /\ pc = "anon_first"
    /\ rq' = WithAuth(tgt, Unwrap(authHdr))
    /\ sends' = sends + 1
    /\ CallTo("raw_request", "anon_check")
    /\ UNCHANGED <<store, last, dirty, settings, cookies, op, tgt, hops, wire, ret,
                   resUrl, authHdr, ukey, firstStatus, refreshed, calls, result>>
    /\ UNCHANGED <<locals, obs>>

\* lines 358-363: return unless 401, else refresh
AnonCheck ==
    /\ pc = "anon_check"
    /\ firstStatus' = ret.status
    /\ IF ~needs_refresh(ret.status)
       THEN ReturnToCaller
       ELSE CallTo("refresh_auth", "anon_retry")
    /\ UNCHANGED <<store, last, dirty, settings, cookies, op, tgt, rq, hops, wire,
                   ret, resUrl, authHdr, ukey, sends, refreshed, calls, result>>
    /\ UNCHANGED <<locals, obs>>

\* lines 361-364: the retry, whose answer goes to the caller
AnonRetry ==
    /\ pc = "anon_retry"
    /\ rq' = WithAuth(tgt, Unwrap(authHdr))
    /\ sends' = sends + 1
    /\ Goto("raw_request")
    /\ UNCHANGED <<store, last, dirty, settings, cookies, op, tgt, hops, wire, ret,
                   resUrl, authHdr, ukey, firstStatus, refreshed, calls, result>>
    /\ UNCHANGED <<locals, obs>>

\* a _raw_request that does not ask whether the session is logged in
RequestStart_unchecked ==
    /\ pc = "_raw_request"
    /\ sends' = IF IsSome(bearer_header(store)) THEN 1 ELSE 0
    /\ firstStatus' = 0
    /\ refreshed' = NoRefresh
    /\ IF IsSome(bearer_header(store))
       THEN /\ rq' = WithAuth(tgt, Unwrap(bearer_header(store)))
            /\ CallTo("raw_request", "request_check")
            /\ UNCHANGED <<tgt, hops, wire, ret, resUrl, authHdr, ukey, result>>
       ELSE Finish(Err("NotLoggedIn"))
    /\ UNCHANGED <<store, last, dirty, settings, cookies, op, calls, locals, obs>>

\* _raw_request, lines 394-411
RequestStart ==
    /\ pc = "_raw_request"
    /\ sends' = IF is_logged_in(store) /\ IsSome(bearer_header(store)) THEN 1 ELSE 0
    /\ firstStatus' = 0
    /\ refreshed' = NoRefresh
    /\ IF ~is_logged_in(store)
       THEN Finish(Err("NotLoggedIn"))
       ELSE IF IsSome(bearer_header(store))
       THEN /\ rq' = WithAuth(tgt, Unwrap(bearer_header(store)))
            /\ CallTo("raw_request", "request_check")
            /\ UNCHANGED <<tgt, hops, wire, ret, resUrl, authHdr, ukey, result>>
       ELSE Finish(Err("NotLoggedIn"))
    /\ UNCHANGED <<store, last, dirty, settings, cookies, op, calls>>
    /\ UNCHANGED <<locals, obs>>

\* lines 413-419
RequestCheck ==
    /\ pc = "request_check"
    /\ firstStatus' = ret.status
    /\ IF ~needs_refresh(ret.status)
       THEN ReturnToCaller
       ELSE CallTo("refresh_auth", "request_retry")
    /\ UNCHANGED <<store, last, dirty, settings, cookies, op, tgt, rq, hops, wire,
                   ret, resUrl, authHdr, ukey, sends, refreshed, calls, result>>
    /\ UNCHANGED <<locals, obs>>

\* lines 417-423
RequestRetry ==
    /\ pc = "request_retry"
    /\ IF ~is_logged_in(store)
       THEN Finish(Err("NotLoggedIn")) /\ UNCHANGED sends
       ELSE /\ rq' = WithAuth(tgt, Unwrap(authHdr))
            /\ sends' = sends + 1
            /\ Goto("raw_request")
            /\ UNCHANGED <<tgt, hops, wire, ret, resUrl, authHdr, ukey, result>>
    /\ UNCHANGED <<store, last, dirty, settings, cookies, op, firstStatus, refreshed,
                   calls>>
    /\ UNCHANGED <<locals, obs>>

-----------------------------------------------------------------------------
(* refresh_auth, get_authorization, authenticate_device *)

\* refresh_auth, lines 479-505: refresh only with a usable access token and a
\* refresh token, then on to get_authorization
RefreshAuth ==
    /\ pc = "refresh_auth"
    /\ IF IsSome(bearer_header(store)) /\ IsSome(refresh_token(store))
       THEN /\ rq' = WithAuth(Request("POST", RefreshUrl, NoHeaders, "json"),
                              Unwrap(bearer_header(store)))
            /\ CallTo("raw_request", "refresh_store")
       ELSE /\ Goto("get_authorization")
            /\ UNCHANGED rq
    /\ UNCHANGED <<store, last, dirty, settings, cookies, op, tgt, hops, wire, ret,
                   resUrl, authHdr, ukey, sends, firstStatus, refreshed, calls, result>>
    /\ UNCHANGED <<locals, obs>>

\* a refresh whose failure is ignored: on to get_authorization in every case
RefreshStore_ignoring_failure ==
    /\ pc = "refresh_store"
    /\ IF ret.status # 200 \/ ret.body.kind # "tokens"
       THEN UNCHANGED <<store, dirty, refreshed>>
       ELSE /\ store' = refresh_tokens(store, ret.body.access, ret.body.refresh)
            /\ dirty' = (dirty \/ store' # store)
            /\ refreshed' = [done |-> TRUE, access |-> ret.body.access,
                             refresh |-> ret.body.refresh, pre |-> store]
    /\ Goto("get_authorization")
    /\ UNCHANGED <<last, settings, cookies, op, tgt, rq, hops, wire, ret, resUrl,
                   authHdr, ukey, sends, firstStatus, calls, result, locals, obs>>

\* lines 490-511: decode the answer, store the pair, go on to get_authorization
RefreshStore ==
    /\ pc = "refresh_store"
    /\ IF ret.status # 200
       THEN Finish(StatusCode(ret.status)) /\ UNCHANGED <<store, dirty, refreshed>>
       ELSE IF ret.body.kind # "tokens"
       THEN Finish(Err("Json")) /\ UNCHANGED <<store, dirty, refreshed>>
       ELSE IF ret.body.token_type # "Bearer"
       THEN Finish(Err("panic")) /\ UNCHANGED <<store, dirty, refreshed>>
       ELSE /\ store' = refresh_tokens(store, ret.body.access, ret.body.refresh)
            /\ dirty' = (dirty \/ store' # store)
            /\ refreshed' = [done |-> TRUE, access |-> ret.body.access,
                             refresh |-> ret.body.refresh, pre |-> store]
            /\ Goto("get_authorization")
            /\ UNCHANGED <<tgt, rq, hops, wire, ret, resUrl, authHdr, ukey, result>>
    /\ UNCHANGED <<last, settings, cookies, op, sends, firstStatus, calls>>
    /\ UNCHANGED <<locals, obs>>

\* get_authorization, lines 518-525
GetAuthorization ==
    /\ pc = "get_authorization"
    /\ IF IsSome(access_token(store)) /\ IsSome(bearer_header(store))
       THEN /\ authHdr' = bearer_header(store)
            /\ ReturnToCaller
            /\ UNCHANGED <<store, dirty, ukey>>
       ELSE /\ store' = IF IsSome(access_token(store))
                        THEN set_tokens(store, EmptyString, EmptyString)
                        ELSE store
            /\ dirty' = (dirty \/ store' # store)
            /\ ukey' = None
            /\ CallTo("authenticate_device", "get_authorization_save")
            /\ UNCHANGED authHdr
    /\ UNCHANGED <<last, settings, cookies, op, tgt, rq, hops, wire, ret, resUrl,
                   sends, firstStatus, refreshed, calls, result>>
    /\ UNCHANGED locals
    /\ obs' = [obs EXCEPT !.iters = Inc(obs.iters)]

\* line 526: save, whose outcome is one of outcomes, then loop
GetAuthorizationSave(outcomes) ==
    /\ pc = "get_authorization_save"
    /\ \E saved \in outcomes :
          /\ obs' = [obs EXCEPT !.saved = IF saved THEN "ok" ELSE "failed"]
          /\ IF saved
             THEN /\ dirty' = FALSE
                  /\ Goto("get_authorization")
                  /\ UNCHANGED <<tgt, rq, hops, wire, ret, resUrl, authHdr, ukey, result>>
             ELSE Finish(Err("Session")) /\ UNCHANGED dirty
    /\ UNCHANGED <<store, last, settings, cookies, op, sends, firstStatus, refreshed,
                   calls, locals>>

\* uuid::Uuid::now_v7().to_string(): a fresh identifier
NewDeviceId == <<117>>

normalized_user_key_keeping_empty(k) == k

\* line 574: an empty user key counts as none
normalized_user_key(k) == IF IsSome(k) /\ is_empty(Unwrap(k)) THEN None ELSE k

\* authenticate_device, lines 574-635
AuthenticateDevice ==
    /\ pc = "authenticate_device"
    /\ IF is_auth_set(store) /\ IsNone(normalized_user_key(ukey))
       THEN /\ ReturnToCaller
            /\ UNCHANGED <<store, dirty, rq, ukey>>
       ELSE /\ store' = IF IsNone(device_id(store))
                        THEN set_device_id(store, NewDeviceId)
                        ELSE store
            /\ dirty' = (dirty \/ store' # store)
            /\ ukey' = normalized_user_key(ukey)
            /\ rq' = Request("POST", DeviceAuthUrl, NoHeaders, "json")
            /\ CallTo("raw_request", "authenticate_device_store")
    /\ UNCHANGED <<last, settings, cookies, op, tgt, hops, wire, ret, resUrl, authHdr,
                   sends, firstStatus, refreshed, calls, result>>
    /\ UNCHANGED locals
    /\ obs' = [obs EXCEPT !.authPre = store, !.authCalls = calls]

\* lines 591-642: decode the answer, store the tokens and the user key
AuthenticateDeviceStore ==
    /\ pc = "authenticate_device_store"
    /\ IF ret.status # 200
       THEN Finish(StatusCode(ret.status)) /\ UNCHANGED <<store, dirty>>
       ELSE IF ret.body.kind # "tokens" \/ (IsSome(ukey) /\ IsNone(ret.body.user_key))
       THEN Finish(Err("Json")) /\ UNCHANGED <<store, dirty>>
       ELSE IF ret.body.token_type # "Bearer"
       THEN Finish(Err("panic")) /\ UNCHANGED <<store, dirty>>
       ELSE /\ store' = IF IsSome(ukey)
                        THEN set_user_key(set_tokens(store, ret.body.access,
                                                     ret.body.refresh),
                                          Unwrap(ret.body.user_key))
                        ELSE set_tokens(store, ret.body.access, ret.body.refresh)
            /\ dirty' = (dirty \/ store' # store)
            /\ ReturnToCaller
            /\ UNCHANGED <<tgt, rq, hops, wire, ret, resUrl, authHdr, ukey, result>>
    /\ UNCHANGED <<last, settings, cookies, op, sends, firstStatus, refreshed, calls>>
    /\ UNCHANGED <<locals, obs>>

-----------------------------------------------------------------------------
(* settings, book_info, download *)

\* a settings that fetches whether or not the cache is filled
Settings_ignoring_cache ==
    /\ pc = "settings"
    /\ tgt' = mkreq("GET", InitUrl)
    /\ CallTo("_anon_raw_request", "settings_store")
    /\ UNCHANGED <<store, last, dirty, settings, cookies, op, rq, hops, wire, ret,
                   resUrl, authHdr, ukey, sends, firstStatus, refreshed, calls, result,
                   locals, obs>>

\* settings, lines 656-669
Settings ==
    /\ pc = "settings"
    /\ IF settings
       THEN ReturnToCaller /\ UNCHANGED tgt
       ELSE /\ tgt' = mkreq("GET", InitUrl)
            /\ CallTo("_anon_raw_request", "settings_store")
    /\ UNCHANGED <<store, last, dirty, settings, cookies, op, rq, hops, wire, ret,
                   resUrl, authHdr, ukey, sends, firstStatus, refreshed, calls, result>>
    /\ UNCHANGED <<locals, obs>>

\* lines 665-672: decode the answer and cache it
SettingsStore ==
    /\ pc = "settings_store"
    /\ IF ret.status # 200
       THEN Finish(StatusCode(ret.status)) /\ UNCHANGED settings
       ELSE IF ret.body.kind # "settings"
       THEN Finish(Err("Json")) /\ UNCHANGED settings
       ELSE /\ settings' = TRUE
            /\ Goto("settings")
            /\ UNCHANGED <<tgt, rq, hops, wire, ret, resUrl, authHdr, ukey, result>>
    /\ UNCHANGED <<store, last, dirty, cookies, op, sends, firstStatus, refreshed,
                   calls>>
    /\ UNCHANGED locals
    /\ obs' = [obs EXCEPT !.fetches = IF pc' = "settings" THEN Inc(@) ELSE @]

\* book_info, lines 918-925
BookInfo ==
    /\ Begin("book_info")
    /\ calls' = 0
    /\ result' = NoResult
    /\ CallTo("settings", "book_info_request")
    /\ UNCHANGED <<store, last, settings, cookies, tgt, rq, hops, wire, ret,
                   resUrl, authHdr, ukey>>

\* lines 919-937: the request for the book
BookInfoRequest ==
    /\ pc = "book_info_request"
    /\ tgt' = mkreq("GET", BookUrl)
    /\ CallTo("_raw_request", "book_info_decode")
    /\ UNCHANGED <<store, last, dirty, settings, cookies, op, rq, hops, wire, ret,
                   resUrl, authHdr, ukey, sends, firstStatus, refreshed, calls, result>>
    /\ UNCHANGED <<locals, obs>>

\* request(), lines 437-438, with the Json codec
BookInfoDecode ==
    /\ pc = "book_info_decode"
    /\ IF ret.status # 200
       THEN Finish(StatusCode(ret.status))
       ELSE IF ret.body.kind # "book"
       THEN Finish(Err("Json"))
       ELSE Finish(Ok)
    /\ UNCHANGED <<store, last, dirty, settings, cookies, op, sends, firstStatus,
                   refreshed, calls>>
    /\ UNCHANGED <<locals, obs>>

\* download, lines 948-970: one request, handed to Transport::download
Download(urls) ==
    /\ Begin("download")
    /\ \E url \in urls :
          IF ~is_logged_in(store)
          THEN Finish(Err("NotLoggedIn")) /\ calls' = 0
          ELSE IF IsSome(bearer_header(store))
          THEN /\ rq' = WithAuth(mkreq("GET", url), Unwrap(bearer_header(store)))
               /\ wire' = Some([kind |-> "download",
                                method |-> "GET",
                                url |-> url,
                                headers |-> push_cookies(cookies, url,
                                    default_headers(HeaderInsert(NoHeaders,
                                        "authorization", Unwrap(bearer_header(store))))),
                                body |-> "None"])
               /\ calls' = Inc(0)
               /\ result' = NoResult
               /\ Goto("download_recv")
               /\ UNCHANGED <<tgt, hops, ret, resUrl, authHdr, ukey>>
          ELSE Finish(Err("NotLoggedIn")) /\ calls' = 0
    /\ UNCHANGED <<store, last, settings, cookies>>

\* lines 970-978: the answer is stored in the jar and judged by its status
DownloadRecv(answers) ==
    /\ pc = "download_recv"
    /\ \E o \in answers :
          IF IsTransportError(o)
          THEN Finish(Err("Transport")) /\ UNCHANGED <<cookies, firstStatus>>
          ELSE /\ cookies' = pull_cookies(cookies, rq.url, o.set_cookie)
               /\ firstStatus' = o.status
               /\ IF ~is_success(o.status)
                  THEN Finish(StatusCode(o.status))
                  ELSE Finish(Ok)
    /\ UNCHANGED <<store, last, dirty, settings, op, sends, refreshed, calls>>
    /\ UNCHANGED <<locals, obs>>

\* simple_request, lines 329-335, with the unit codec: raw_request, then the
\* status decides
SimpleRequest(requests) ==
    /\ Begin("simple_request")
    /\ \E r \in requests : rq' = r
    /\ calls' = 0
    /\ result' = NoResult
    /\ CallTo("raw_request", "simple_request_decode")
    /\ UNCHANGED <<store, last, settings, cookies, tgt, hops, wire, ret,
                   resUrl, authHdr, ukey>>

SimpleRequestDecode ==
    /\ pc = "simple_request_decode"
    /\ IF is_success(ret.status)
       THEN Finish(Ok)
       ELSE Finish(StatusCode(ret.status))
    /\ UNCHANGED <<store, last, dirty, settings, cookies, op, sends, firstStatus,
                   refreshed, calls>>
    /\ UNCHANGED <<locals, obs>>

-----------------------------------------------------------------------------
(* login *)

SignInUrl == Url("authorize.kobo.com", "/signin")
SignInPostUrl == Url("authorize.kobo.com", "/ww/en/signin/signin")

\* login, lines 761-762, and login_parameters, line 703
Login ==
    /\ Begin("login")
    /\ calls' = 0
    /\ result' = NoResult
    /\ CallTo("settings", "login_parameters")
    /\ UNCHANGED <<store, last, settings, cookies, tgt, rq, hops, wire, ret, resUrl,
                   authHdr, ukey>>

\* login_parameters, lines 703-719: the sign-in URL needs the device id
\* (unwrap), then the page is fetched
LoginParameters ==
    /\ pc = "login_parameters"
    /\ IF IsNone(device_id(store))
       THEN Finish(Err("panic"))
       ELSE /\ rq' = mkreq("GET", SignInUrl)
            /\ CallTo("raw_request", "login_page")
            /\ UNCHANGED <<tgt, hops, wire, ret, resUrl, authHdr, ukey, result>>
    /\ UNCHANGED <<store, last, dirty, settings, cookies, op, sends, firstStatus,
                   refreshed, calls, locals, obs>>

\* extract, lines 691-700: both inputs of the form, with non-empty values
extract(page) ==
    IF IsNone(page.workflow) \/ is_empty(Unwrap(page.workflow))
    THEN None
    ELSE IF IsNone(page.csrf) \/ is_empty(Unwrap(page.csrf))
    THEN None
    ELSE Some(<<Unwrap(page.workflow), Unwrap(page.csrf)>>)

\* lines 719-721: the page as a String, the form values, settings once more
LoginPage ==
    /\ pc = "login_page"
    /\ IF ret.status # 200
       THEN Finish(StatusCode(ret.status))
       ELSE IF IsNone(extract(ret.body))
       THEN Finish(Err("LoginFlow"))
       ELSE /\ CallTo("settings", "login_post")
            /\ UNCHANGED <<tgt, rq, hops, wire, ret, resUrl, authHdr, ukey, result>>
    /\ UNCHANGED <<store, last, dirty, settings, cookies, op, sends, firstStatus,
                   refreshed, calls, locals, obs>>

\* lines 721-781: the form is posted through the anonymous pipeline
LoginPost ==
    /\ pc = "login_post"
    /\ tgt' = Request("POST", SignInPostUrl, NoHeaders, "form")
    /\ CallTo("_anon_raw_request", "login_result")
    /\ UNCHANGED <<store, last, dirty, settings, cookies, op, rq, hops, wire, ret,
                   resUrl, authHdr, ukey, sends, firstStatus, refreshed, calls, result,
                   locals, obs>>

\* a login that takes a missing query parameter for an empty one
LoginResult_lenient ==
    /\ pc = "login_result"
    /\ IF ret.status # 200
       THEN Finish(StatusCode(ret.status)) /\ UNCHANGED locals
       ELSE IF ret.body.href # "url"
       THEN Finish(Err("LoginFlow")) /\ UNCHANGED locals
       ELSE /\ locals' = [locals EXCEPT !.user_id =
                            IF IsNone(ret.body.user_id) THEN Some(EmptyString)
                            ELSE ret.body.user_id]
            /\ ukey' = IF IsNone(ret.body.user_key) THEN Some(EmptyString)
                       ELSE ret.body.user_key
            /\ CallTo("authenticate_device", "login_set_user_id")
            /\ UNCHANGED <<tgt, rq, hops, wire, ret, resUrl, authHdr, result>>
    /\ UNCHANGED <<store, last, dirty, settings, cookies, op, sends, firstStatus,
                   refreshed, calls, obs>>

\* lines 778-808: the answer as a String, the destination URL from its
\* scripts, both query parameters, then authenticate_device with the user key
LoginResult ==
    /\ pc = "login_result"
    /\ IF ret.status # 200
       THEN Finish(StatusCode(ret.status)) /\ UNCHANGED locals
       ELSE IF ret.body.href # "url"
       THEN Finish(Err("LoginFlow")) /\ UNCHANGED locals
       ELSE IF IsNone(ret.body.user_id) \/ IsNone(ret.body.user_key)
       THEN Finish(Err("LoginFlow")) /\ UNCHANGED locals
       ELSE /\ locals' = [locals EXCEPT !.user_id = ret.body.user_id]
            /\ ukey' = ret.body.user_key
            /\ CallTo("authenticate_device", "login_set_user_id")
            /\ UNCHANGED <<tgt, rq, hops, wire, ret, resUrl, authHdr, result>>
    /\ UNCHANGED <<store, last, dirty, settings, cookies, op, sends, firstStatus,
                   refreshed, calls, obs>>

\* line 809
LoginSetUserId ==
    /\ pc = "login_set_user_id"
    /\ store' = set_user_id(store, Unwrap(locals.user_id))
    /\ dirty' = (dirty \/ store' # store)
    /\ Goto("login_save")
    /\ UNCHANGED <<last, settings, cookies, op, tgt, rq, hops, wire, ret, resUrl,
                   authHdr, ukey, sends, firstStatus, refreshed, calls, result,
                   locals, obs>>

\* a save whose failure is ignored
LoginSave_ignoring_failure(outcomes) ==
    /\ pc = "login_save"
    /\ \E saved \in outcomes :
          /\ obs' = [obs EXCEPT !.saved = IF saved THEN "ok" ELSE "failed"]
          /\ Finish(Ok)
          /\ dirty' = (dirty /\ ~saved)
    /\ UNCHANGED <<store, last, settings, cookies, op, sends, firstStatus, refreshed,
                   calls, locals>>

\* lines 810-811: save, whose outcome is one of outcomes
LoginSave(outcomes) ==
    /\ pc = "login_save"
    /\ \E saved \in outcomes :
          /\ obs' = [obs EXCEPT !.saved = IF saved THEN "ok" ELSE "failed"]
          /\ IF saved
             THEN Finish(Ok) /\ dirty' = FALSE
             ELSE Finish(Err("Session")) /\ UNCHANGED dirty
    /\ UNCHANGED <<store, last, settings, cookies, op, sends, firstStatus, refreshed,
                   calls, locals>>

-----------------------------------------------------------------------------
(* book_list and access_book *)

\* catalog pages the server chains with continuation tokens at most
MaxPages == 3

SyncUrl == Url(ApiHost, "/v1/library/sync")
AccessUrl == Url(ApiHost, "/v1/products/books/1/access")

\* book_list and _book_list, lines 839-843; sync_page, line 824
BookList ==
    /\ Begin("book_list")
    /\ calls' = 0
    /\ result' = NoResult
    /\ CallTo("settings", "sync_page")
    /\ UNCHANGED <<store, last, settings, cookies, tgt, rq, hops, wire, ret, resUrl,
                   authHdr, ukey>>

\* sync_page, lines 819-821: the token is sent when it is not empty and a
\* header value can be built from it
sync_token(token) ==
    IF IsNone(token) \/ is_empty(Unwrap(token))
    THEN None
    ELSE HeaderValue_from_str(Unwrap(token))

\* sync_page, lines 819-832
SyncPage ==
    /\ pc = "sync_page"
    /\ tgt' = IF IsSome(sync_token(locals.token))
              THEN Request("GET", SyncUrl,
                           HeaderInsert(NoHeaders, "x-kobo-synctoken",
                                        Unwrap(sync_token(locals.token))),
                           "unit")
              ELSE mkreq("GET", SyncUrl)
    /\ CallTo("_raw_request", "book_list_page")
    /\ UNCHANGED <<store, last, dirty, settings, cookies, op, rq, hops, wire, ret,
                   resUrl, authHdr, ukey, sends, firstStatus, refreshed, calls, result,
                   locals, obs>>

\* std::str::from_utf8 on the byte strings of the model, which hold one-byte
\* and two-byte characters at most: every other byte is an error
RECURSIVE is_utf8_text(_)
is_utf8_text(b) ==
    IF b = << >> THEN TRUE
    ELSE IF b[1] < 128 THEN is_utf8_text(Tail(b))
    ELSE IF b[1] >= 194 /\ b[1] <= 223 /\ Len(b) >= 2 /\ b[2] >= 128 /\ b[2] <= 191
    THEN is_utf8_text(Tail(Tail(b)))
    ELSE FALSE

from_utf8(b) == IF is_utf8_text(b) THEN Some(b) ELSE None

\* BooksPage::from_response, book.rs lines 404-423: the continuation token
BooksPage_next(body) ==
    IF body.sync = "continue"
    THEN IF IsNone(body.synctoken) THEN None
         ELSE IF is_empty(Unwrap(body.synctoken)) THEN None
         ELSE from_utf8(Unwrap(body.synctoken))
    ELSE None

\* str::cmp: byte-wise lexicographic order, a proper prefix first
RECURSIVE str_less(_, _)
str_less(a, b) ==
    IF b = << >> THEN FALSE
    ELSE IF a = << >> THEN TRUE
    ELSE IF a[1] # b[1] THEN a[1] < b[1]
    ELSE str_less(Tail(a), Tail(b))

\* a sort that keeps the books in place
sort_by_title_skipped(books) == books

\* line 847, slice::sort_by on the titles: stable, ascending
RECURSIVE sort_by_title(_)
sort_by_title(books) ==
    IF books = << >> THEN << >>
    ELSE LET rest == sort_by_title(Tail(books))
             b == Head(books)
             \* b goes before the first book whose title is not less than its own
             k == Cardinality({i \in 1..Len(rest) : str_less(rest[i].title, b.title)})
         IN SubSeq(rest, 1, k) \o <<b>> \o SubSeq(rest, k + 1, Len(rest))

\* _book_list, lines 842-849, with the catalog page codec
BookListPage ==
    /\ pc = "book_list_page"
    /\ IF ret.status # 200
       THEN Finish(StatusCode(ret.status)) /\ UNCHANGED <<locals, obs>>
       ELSE IF ret.body.kind # "books"
       THEN Finish(Err("Json")) /\ UNCHANGED <<locals, obs>>
       ELSE LET next == BooksPage_next(ret.body)
                res == locals.res \o ret.body.books
            IN /\ obs' = [obs EXCEPT !.synced =
                            Append(@, [books |-> ret.body.books, next |-> next])]
               /\ IF IsNone(next)
                  THEN /\ locals' = [locals EXCEPT !.token = next,
                                                   !.pages = locals.pages + 1,
                                                   !.res = sort_by_title(res)]
                       /\ Finish(Ok)
                  ELSE /\ locals.pages + 1 < MaxPages
                       /\ locals' = [locals EXCEPT !.token = next,
                                                   !.pages = locals.pages + 1,
                                                   !.res = res]
                       /\ CallTo("settings", "sync_page")
                       /\ UNCHANGED <<tgt, rq, hops, wire, ret, resUrl, authHdr,
                                      ukey, result>>
    /\ UNCHANGED <<store, last, dirty, settings, cookies, op, sends, firstStatus,
                   refreshed, calls>>

\* access_book, lines 871-875
AccessBook ==
    /\ Begin("access_book")
    /\ calls' = 0
    /\ result' = NoResult
    /\ CallTo("settings", "access_book_key")
    /\ UNCHANGED <<store, last, settings, cookies, tgt, rq, hops, wire, ret, resUrl,
                   authHdr, ukey>>

\* lines 890-909: the key needs device_id() and user_id(), then the request
AccessBookKey ==
    /\ pc = "access_book_key"
    /\ IF IsSome(device_id(store)) /\ IsSome(user_id(store))
       THEN /\ tgt' = mkreq("GET", AccessUrl)
            /\ CallTo("_raw_request", "access_book_decode")
            /\ UNCHANGED <<rq, hops, wire, ret, resUrl, authHdr, ukey, result>>
       ELSE Finish(Err("NotLoggedIn"))
    /\ UNCHANGED <<store, last, dirty, settings, cookies, op, sends, firstStatus,
                   refreshed, calls, locals, obs>>

\* request_seed, lines 453-454, with the seeded Json codec
AccessBookDecode ==
    /\ pc = "access_book_decode"
    /\ IF ret.status # 200
       THEN Finish(StatusCode(ret.status))
       ELSE IF ret.body.kind # "access"
       THEN Finish(Err("Json"))
       ELSE Finish(Ok)
    /\ UNCHANGED <<store, last, dirty, settings, cookies, op, sends, firstStatus,
                   refreshed, calls, locals, obs>>

-----------------------------------------------------------------------------
(* The pipeline: any persisted session, then any sequence of operations     *)

StrD == <<100>>
StrR == <<114>>
StrS == <<115>>
StrK == <<107>>
StrI == <<105>>

Loaded == [op |-> "load", a1 |-> EmptyString, a2 |-> EmptyString, pre |-> NoStore]

PipeStores ==
    {st \in [Fields -> OptionOf({StrA, StrLF, StrD, StrR, StrK, StrI})] :
        /\ st["DeviceId"] \in OptionOf({StrD})
        /\ st["AccessToken"] \in OptionOf({StrA, StrLF})
        /\ st["RefreshToken"] \in OptionOf({StrR})
        /\ st["UserKey"] \in OptionOf({StrK})
        /\ st["UserId"] \in OptionOf({StrI})}

PipeBodies ==
    {JunkBody, SettingsBody, BookBody, TokenBody("Basic", StrB, StrS, None)}
        \cup {TokenBody("Bearer", a, r, None) :
                a \in {EmptyString, StrB, StrLF}, r \in {EmptyString, StrS}}

PipeAnswers ==
    Outcomes({200, 204, 302, 401, 500}, {<< >>, <<RelLoc>>}, {{}}, PipeBodies)

Init ==
    /\ store \in PipeStores
    /\ last = Loaded
    /\ PipeAtRest

Next ==
    \/ BookInfo
    \/ BookInfoRequest
    \/ BookInfoDecode
    \/ Settings
    \/ SettingsStore
    \/ AnonStart
    \/ AnonFirst
    \/ AnonCheck
    \/ AnonRetry
    \/ RequestStart
    \/ RequestCheck
    \/ RequestRetry
    \/ RefreshAuth
    \/ RefreshStore
    \/ GetAuthorization
    \/ GetAuthorizationSave(BOOLEAN)
    \/ AuthenticateDevice
    \/ AuthenticateDeviceStore
    \/ RawRequestSend
    \/ RawRequestRecv(PipeAnswers)
    \/ RawRequestFollow
    \/ RawRequestFollowRecv(PipeAnswers)
    \/ Download({FileUrl})
    \/ DownloadRecv(PipeAnswers)

Spec == Init /\ [][Next]_vars

-----------------------------------------------------------------------------
(* The request level on its own: raw_request and download against a server  *)
(* that sets cookies and redirects in every way                             *)

\* s=1, t=, (a comma as value) and (=1 (a parenthesis as name)
CookieS == [name |-> <<115>>, value |-> <<49>>]
CookieT == [name |-> <<116>>, value |-> <<44>>]
CookieP == [name |-> <<40>>, value |-> <<49>>]

RawRequests ==
    {mkreq("GET", InitUrl),
     WithAuth(mkreq("GET", BookUrl), Bearer(StrA)),
     Request("POST", DeviceAuthUrl, NoHeaders, "json"),
     WithAuth(Request("POST", Url(OtherHost, "/ww/en/signin/signin"), NoHeaders, "form"),
              Bearer(StrA))}

RawLocations ==
    {<< >>, <<RelLoc>>, <<AbsLoc>>, <<BadLoc>>, <<OpaqueLoc>>,
     <<BadLoc, RelLoc>>, <<OpaqueLoc, AbsLoc>>, <<RelLoc, AbsLoc>>}

RawAnswers ==
    Outcomes({200, 302, 307, 401}, RawLocations,
             {{}, {CookieS}, {CookieT}, {CookieP}}, {JunkBody})

LoggedInStore ==
    [f \in Fields |->
        CASE f = "DeviceId" -> Some(StrD)
          [] f = "AccessToken" -> Some(StrA)
          [] f = "RefreshToken" -> Some(StrR)
          [] f = "UserKey" -> Some(StrK)
          [] f = "UserId" -> Some(StrI)]

InitRaw ==
    /\ store = LoggedInStore
    /\ last = Loaded
    /\ PipeAtRest

NextRaw ==
    \/ SimpleRequest(RawRequests)
    \/ SimpleRequestDecode
    \/ RawRequestSend
    \/ RawRequestRecv(RawAnswers)
    \/ RawRequestFollow
    \/ RawRequestFollowRecv(RawAnswers)
    \/ Download({FileUrl, BookUrl})
    \/ DownloadRecv(RawAnswers)

SpecRaw == InitRaw /\ [][NextRaw]_vars

-----------------------------------------------------------------------------
(* Every public operation of the client but download, against a server     *)
(* that does not redirect                                                   *)

StrJ == <<106>>
StrT == <<116>>
StrW == <<119>>

\* books of the catalog: two share a title, one title is a prefix of another
BookB == [id |-> 1, title |-> <<98>>]
BookA == [id |-> 2, title |-> <<97>>]
BookAA == [id |-> 3, title |-> <<97, 97>>]
BookA2 == [id |-> 4, title |-> <<97>>]

\* a header value that is not UTF-8 text
StrNotUtf8 == <<255>>

\* catalog pages: with and without a continuation token, and with the two
\* headers in the combinations that give none
OpsPages ==
    {CatalogPage("continue", Some(t), b) :
        t \in {StrT, StrW}, b \in {<<BookB, BookA>>, <<BookAA, BookA2>>}}
        \cup {CatalogPage("none", None, b) : b \in {<< >>, <<BookA2, BookAA>>}}
        \cup {CatalogPage("continue", None, <<BookB>>),
              CatalogPage("continue", Some(EmptyString), <<BookB>>),
              CatalogPage("continue", Some(StrNotUtf8), <<BookB>>),
              CatalogPage("other", Some(StrT), <<BookB>>)}

OpsBodies ==
    {JunkBody, SettingsBody, BookBody, AccessBody} \cup OpsPages
        \cup {TokenBody("Bearer", StrB, StrS, uk) :
                uk \in {None, Some(EmptyString), Some(StrJ)}}
        \cup {SignInPage(Some(StrW), Some(StrT)), SignInPage(None, Some(StrT)),
              SignInPage(Some(StrW), Some(EmptyString))}
        \cup {ResultPage("unparsable", None, None)}
        \cup {ResultPage("url", i, k) :
                i \in {None, Some(EmptyString), Some(StrI)},
                k \in {None, Some(EmptyString), Some(StrK)}}

OpsAnswers == Outcomes({200, 401, 500}, {<< >>}, {{}}, OpsBodies)

InitOps ==
    /\ store \in PipeStores
    /\ last = Loaded
    /\ PipeAtRest

NextOps ==
    \/ Login
    \/ LoginParameters
    \/ LoginPage
    \/ LoginPost
    \/ LoginResult
    \/ LoginSetUserId
    \/ LoginSave(BOOLEAN)
    \/ BookList
    \/ SyncPage
    \/ BookListPage
    \/ AccessBook
    \/ AccessBookKey
    \/ AccessBookDecode
    \/ BookInfo
    \/ BookInfoRequest
    \/ BookInfoDecode
    \/ Settings
    \/ SettingsStore
    \/ AnonStart
    \/ AnonFirst
    \/ AnonCheck
    \/ AnonRetry
    \/ RequestStart
    \/ RequestCheck
    \/ RequestRetry
    \/ RefreshAuth
    \/ RefreshStore
    \/ GetAuthorization
    \/ GetAuthorizationSave(BOOLEAN)
    \/ AuthenticateDevice
    \/ AuthenticateDeviceStore
    \/ RawRequestSend
    \/ RawRequestRecv(OpsAnswers)

SpecOps == InitOps /\ [][NextOps]_vars

-----------------------------------------------------------------------------
(* One client, several sessions: every public operation takes the session  *)
(* it works on, while the settings and the cookies stay with the client    *)

\* the caller goes on with another session, one of sessions
OtherSession(sessions) ==
    /\ pc = "idle"
    /\ op # "none"
    /\ store' \in sessions
    /\ last' = Loaded
    /\ dirty' = FALSE
    /\ op' = "none"
    /\ result' = NoResult
    /\ locals' = NoLocals
    /\ obs' = NoObs
    /\ UNCHANGED <<settings, cookies, pc, stack, tgt, rq, hops, wire, ret, resUrl,
                   authHdr, ukey, sends, firstStatus, refreshed, calls>>

\* a session that holds nothing, and one that is fully logged in
OtherSessions == {NoStore, LoggedInStore}

NextSessions ==
    \/ NextOps
    \/ OtherSession(OtherSessions)

SpecSessions == InitOps /\ [][NextSessions]_vars

-----------------------------------------------------------------------------
(* get_authorization on its own: any persisted session, a device-          *)
(* authentication endpoint that always answers 200 with a Bearer result    *)
(* of usable tokens, and a save() that always succeeds                     *)

\* a call of get_authorization
GetAuthorizationCall ==
    /\ Begin("get_authorization")
    /\ calls' = 0
    /\ result' = NoResult
    /\ CallTo("get_authorization", "get_authorization_done")
    /\ UNCHANGED <<store, last, settings, cookies, tgt, rq, hops, wire, ret, resUrl,
                   authHdr, ukey>>

\* line 521: the header is returned
GetAuthorizationDone ==
    /\ pc = "get_authorization_done"
    /\ Finish(Ok)
    /\ UNCHANGED <<store, last, dirty, settings, cookies, op, sends, firstStatus,
                   refreshed, calls, locals, obs>>

GoodAuthAnswers ==
    {r \in Outcomes({200}, {<< >>}, {{}},
                    {TokenBody("Bearer", a, StrS, None) : a \in {StrA, StrB}}) :
        ~IsTransportError(r)}

InitAuth ==
    /\ store \in PipeStores
    /\ last = Loaded
    /\ PipeAtRest

NextAuth ==
    \/ GetAuthorizationCall
    \/ GetAuthorizationDone
    \/ GetAuthorization
    \/ GetAuthorizationSave({TRUE})
    \/ AuthenticateDevice
    \/ AuthenticateDeviceStore
    \/ RawRequestSend
    \/ RawRequestRecv(GoodAuthAnswers)

SpecAuth == InitAuth /\ [][NextAuth]_vars

-----------------------------------------------------------------------------
(* The credential state machine on its own: any persisted snapshot, then    *)
(* any sequence of SessionAdapter mutators.                                 *)

Called(name, a1, a2) == [op |-> name, a1 |-> a1, a2 |-> a2, pre |-> store]

InitSession ==
    /\ store \in [Fields -> OptionOf(SessStrings)]
    /\ last = Loaded
    /\ PipeAtRest

SetDeviceId ==
    \E s \in SessStrings :
        /\ store' = set_device_id(store, s)
        /\ last' = Called("set_device_id", s, EmptyString)
        /\ UNCHANGED pipeVars

SetUserKey ==
    \E s \in SessStrings :
        /\ store' = set_user_key(store, s)
        /\ last' = Called("set_user_key", s, EmptyString)
        /\ UNCHANGED pipeVars

SetUserId ==
    \E s \in SessStrings :
        /\ store' = set_user_id(store, s)
        /\ last' = Called("set_user_id", s, EmptyString)
        /\ UNCHANGED pipeVars

RefreshTokens ==
    \E access \in SessStrings, refresh \in SessStrings :
        /\ store' = refresh_tokens(store, access, refresh)
        /\ last' = Called("refresh_tokens", access, refresh)
        /\ UNCHANGED pipeVars

SetTokens ==
    \E access \in SessStrings, refresh \in SessStrings :
        /\ store' = set_tokens(store, access, refresh)
        /\ last' = Called("set_tokens", access, refresh)
        /\ UNCHANGED pipeVars

NextSession ==
    \/ SetDeviceId
    \/ SetUserKey
    \/ SetUserId
    \/ RefreshTokens
    \/ SetTokens

SpecSession == InitSession /\ [][NextSession]_vars

-----------------------------------------------------------------------------
(* content_type.rs: the Content-Type parser, over byte strings *)

\* lines 3-8: the bitmap of the token characters, one bit per byte value
TCHAR ==
    <<0, 0, 0, 0, 250, 108, 255, 3, 254, 255, 255, 199, 255, 255, 255, 87,
      0, 0, 0, 0, 0, 0, 0, 0, 0, 0, 0, 0, 0, 0, 0, 0>>

\* lines 10-15: the bitmap of the characters a quoted string holds unescaped
QDTEXT ==
    <<0, 2, 0, 0, 251, 255, 255, 255, 255, 255, 255, 239, 255, 255, 255, 127,
      255, 255, 255, 255, 255, 255, 255, 255, 255, 255, 255, 255, 255, 255, 255, 255>>

\* line 54: bit c % 8 of byte c / 8
is_in(haystack, c) == (haystack[(c \div 8) + 1] \div (2 ^ (c % 8))) % 2 = 1

is_token(c) == is_in(TCHAR, c)
is_qdtext(c) == is_in(QDTEXT, c)
is_qchar(c) == c = 9 \/ (c # 127 /\ c > 31)

\* lines 42-50: skip spaces and tabs
RECURSIVE ows(_)
ows(buf) ==
    IF buf # << >> /\ (buf[1] = 32 \/ buf[1] = 9) THEN ows(Tail(buf)) ELSE buf

\* lines 78-83: skip token characters
RECURSIVE skip_token_chars(_)
skip_token_chars(buf) ==
    IF buf # << >> /\ is_token(buf[1]) THEN skip_token_chars(Tail(buf)) ELSE buf

\* lines 72-86: what follows a token, None when buf starts with none
skip_token(buf) ==
    IF buf = << >> THEN None
    ELSE IF ~is_token(buf[1]) THEN None
    ELSE Some(skip_token_chars(Tail(buf)))

\* lines 88-98: pull_token and pull_ident, the token and what follows it
pull_token(buf) ==
    IF IsNone(skip_token(buf)) THEN None
    ELSE Some([tok |-> SubSeq(buf, 1, Len(buf) - Len(Unwrap(skip_token(buf)))),
               rest |-> Unwrap(skip_token(buf))])

\* lines 105-138: the loop over a quoted string; start is what followed the
\* opening quote.  The closing quote returns from pull_value at once.
RECURSIVE pull_quoted(_, _, _)
pull_quoted(start, buf, copy) ==
    IF buf = << >> THEN None
    ELSE IF buf[1] = 34
    THEN Some([copy |-> copy,
               inner |-> SubSeq(start, 1, Len(start) - Len(Tail(buf)) - 1),
               rest |-> Tail(buf)])
    ELSE IF buf[1] = 92
    THEN IF Tail(buf) = << >> THEN None
         ELSE IF ~is_qchar(buf[2]) THEN None
         ELSE pull_quoted(start, Tail(Tail(buf)), FALSE)
    ELSE IF ~is_qdtext(buf[1]) THEN None
    ELSE pull_quoted(start, Tail(buf), copy)

\* lines 100-152: a quoted string, or a token that a space, a tab, a ';' or
\* the end follows
pull_value(buf) ==
    IF buf = << >> THEN None
    ELSE IF buf[1] = 34 THEN pull_quoted(Tail(buf), Tail(buf), TRUE)
    ELSE IF IsNone(pull_token(buf)) THEN None
    ELSE LET t == Unwrap(pull_token(buf))
         IN IF t.rest = << >> \/ t.rest[1] \in {32, 9, 59}
            THEN Some([copy |-> TRUE, inner |-> t.tok, rest |-> t.rest])
            ELSE None

\* lines 154-162
pull_parameter(buf) ==
    IF IsNone(pull_token(buf)) THEN None
    ELSE LET k == Unwrap(pull_token(buf))
         IN IF k.rest = << >> THEN None
            ELSE IF k.rest[1] # 61 THEN None
            ELSE IF IsNone(pull_value(Tail(k.rest))) THEN None
            ELSE LET v == Unwrap(pull_value(Tail(k.rest)))
                 IN Some([key |-> k.tok,
                          value |-> [copy |-> v.copy, inner |-> v.inner],
                          rest |-> v.rest])

\* ContentType::parse, lines 180-196
ContentType_parse(buf) ==
    IF IsNone(pull_token(ows(buf))) THEN None
    ELSE LET t == Unwrap(pull_token(ows(buf)))
         IN IF t.rest = << >> THEN None
            ELSE IF t.rest[1] # 47 THEN None
            ELSE IF IsNone(pull_token(Tail(t.rest))) THEN None
            ELSE LET s == Unwrap(pull_token(Tail(t.rest)))
                 IN Some([type_ |-> t.tok, subtype |-> s.tok, rest |-> s.rest])

\* what Iter::next returns and what it leaves in self.rest
IterEnd(rest) == [item |-> "None", rest |-> rest]
IterErr == [item |-> "Err", rest |-> << >>]
IterOk(p) == [item |-> "Ok", key |-> p.key, value |-> p.value, rest |-> p.rest]

\* an iterator that goes on after an error, one byte further
Iter_next_resuming(rest) ==
    IF rest = << >> THEN IterEnd(rest)
    ELSE IF ows(rest) = << >> THEN IterEnd(ows(rest))
    ELSE IF ows(rest)[1] # 59 THEN [IterErr EXCEPT !.rest = Tail(ows(rest))]
    ELSE IF ows(Tail(ows(rest))) = << >> THEN IterEnd(<< >>)
    ELSE IF IsNone(pull_parameter(ows(Tail(ows(rest)))))
    THEN [IterErr EXCEPT !.rest = Tail(ows(rest))]
    ELSE IterOk(Unwrap(pull_parameter(ows(Tail(ows(rest))))))

\* Iter::next, lines 217-241
Iter_next(rest) ==
    IF rest = << >> THEN IterEnd(rest)
    ELSE IF ows(rest) = << >> THEN IterEnd(ows(rest))
    ELSE IF ows(rest)[1] # 59 THEN IterErr
    ELSE LET r == ows(Tail(ows(rest)))
         IN IF r = << >> THEN IterEnd(r)
            ELSE IF IsNone(pull_parameter(r)) THEN IterErr
            ELSE IterOk(Unwrap(pull_parameter(r)))

\* Value::value_in, lines 260-266: drop the backslash of each quoted pair
RECURSIVE unescaped(_)
unescaped(inner) ==
    IF inner = << >> THEN << >>
    ELSE IF inner[1] = 92 THEN <<inner[2]>> \o unescaped(Tail(Tail(inner)))
    ELSE <<inner[1]>> \o unescaped(Tail(inner))

\* a value that is returned as it stands in the header
Value_value_raw(v) == v.inner

\* Value::value, lines 245-254
Value_value(v) == IF v.copy THEN v.inner ELSE unescaped(v.inner)

\* the locals of a parse: the header, the ContentType parsed from it, the
\* rest of its parameter iterator, the items the iterator has returned
ParseLocals(buf) == [buf |-> buf, ct |-> None, rest |-> << >>, items |-> << >>]

\* ContentType::parse(buf), then parameters()
Parse ==
    /\ pc = "idle"
    /\ op = "none"
    /\ op' = "parse"
    /\ IF IsNone(ContentType_parse(locals.buf))
       THEN /\ result' = Err("InvalidContentType")
            /\ pc' = "idle"
            /\ UNCHANGED locals
       ELSE /\ locals' = [locals EXCEPT !.ct = ContentType_parse(locals.buf),
                                        !.rest = Unwrap(ContentType_parse(locals.buf)).rest]
            /\ pc' = "parameters"
            /\ UNCHANGED result
    /\ UNCHANGED <<store, last, dirty, settings, cookies, stack, tgt, rq, hops, wire,
                   ret, resUrl, authHdr, ukey, sends, firstStatus, refreshed, calls,
                   obs>>

\* one call of next() on the parameter iterator; the iteration ends with the
\* first None, with an error when one of the items was an error
Parameters ==
    /\ pc = "parameters"
    /\ LET n == Iter_next(locals.rest)
       IN IF n.item = "None"
          THEN /\ locals' = [locals EXCEPT !.rest = n.rest]
               /\ result' = IF \E i \in 1..Len(locals.items) : locals.items[i].item = "Err"
                            THEN Err("InvalidContentType")
                            ELSE Ok
               /\ pc' = "idle"
          ELSE /\ locals' = [locals EXCEPT !.rest = n.rest,
                                           !.items = Append(@, n)]
               /\ UNCHANGED <<result, pc>>
    /\ UNCHANGED <<store, last, dirty, settings, cookies, stack, op, tgt, rq, hops,
                   wire, ret, resUrl, authHdr, ukey, sends, firstStatus, refreshed,
                   calls, obs>>

\* what stands before the type: nothing, a space, a byte that is no token character (@)
CTLeads ==
    {<< >>,
     <<32>>,
     <<64>>}

\* type and subtype: t/h, T/h, and the malformed t, t/, /h, "t h/h"
CTMedias ==
    {<<116, 47, 104>>,
     <<84, 47, 104>>,
     <<116>>,
     <<116, 47>>,
     <<47, 104>>,
     <<116, 32, 104, 47, 104>>}

\* parameter sections, well formed and not, in this order: nothing; ";";
\* "; "; ;a=b; " ; a=b"; ;a="b"; ;a="b\"c"; ;a="b (no closing quote); ;a; ;a=;
\* ;=b; ";a=b c"; " "; a=b (no semicolon); ;a=""; ;a="b"c; ;a=b@; ;a="\ (the
\* header ends in the escape); an escaped and a bare control byte in quotes;
\* tabs for white space with an upper-case key
CTSections ==
    {<< >>,
     <<59>>,
     <<59, 32>>,
     <<59, 97, 61, 98>>,
     <<32, 59, 32, 97, 61, 98>>,
     <<59, 97, 61, 34, 98, 34>>,
     <<59, 97, 61, 34, 98, 92, 34, 99, 34>>,
     <<59, 97, 61, 34, 98>>,
     <<59, 97>>,
     <<59, 97, 61>>,
     <<59, 61, 98>>,
     <<59, 97, 61, 98, 32, 99>>,
     <<32>>,
     <<97, 61, 98>>,
     <<59, 97, 61, 34, 34>>,
     <<59, 97, 61, 34, 98, 34, 99>>,
     <<59, 97, 61, 98, 64>>,
     <<59, 97, 61, 34, 92>>,
     <<59, 97, 61, 34, 92, 1, 34>>,
     <<59, 97, 61, 34, 1, 34>>,
     <<9, 59, 9, 66, 61, 99, 9>>}

\* the headers of the examples: text/html; charset=UTF-8 and application/json
TextHtmlUtf8 ==
    <<116, 101, 120, 116, 47, 104, 116, 109, 108, 59, 32, 99, 104, 97, 114, 115, 101, 116, 61, 85, 84, 70, 45, 56>>
ApplicationJson ==
    <<97, 112, 112, 108, 105, 99, 97, 116, 105, 111, 110, 47, 106, 115, 111, 110>>

\* every header made of a lead, a media type and up to two sections
CTInputs ==
    {l \o m \o s1 \o s2 : l \in CTLeads, m \in CTMedias, s1 \in CTSections,
                            s2 \in CTSections}
        \cup {TextHtmlUtf8, ApplicationJson}

\* all but locals are at rest
AtRest ==
    /\ dirty = FALSE
    /\ settings = FALSE
    /\ cookies = {}
    /\ pc = "idle"
    /\ stack = << >>
    /\ op = "none"
    /\ tgt = NoReq
    /\ rq = NoReq
    /\ hops = 0
    /\ wire = None
    /\ ret = NoRet
    /\ resUrl = NoUrl
    /\ authHdr = None
    /\ ukey = None
    /\ sends = 0
    /\ firstStatus = 0
    /\ refreshed = NoRefresh
    /\ calls = 0
    /\ result = NoResult
    /\ obs = NoObs

\* the parser on its own: any of the headers, parsed once
InitParse ==
    /\ store = NoStore
    /\ last = Loaded
    /\ AtRest
    /\ locals \in {ParseLocals(buf) : buf \in CTInputs}

NextParse ==
    \/ Parse
    \/ Parameters

SpecParse == InitParse /\ [][NextParse]_vars

-----------------------------------------------------------------------------
(* kobo/request.rs: the body codecs *)

\* lines 138-149: the key is charset in any case
is_charset_key(key) ==
    /\ Len(key) = 7
    /\ key[1] \in {99, 67}
    /\ key[2] \in {104, 72}
    /\ key[3] \in {97, 65}
    /\ key[4] \in {114, 82}
    /\ key[5] \in {115, 83}
    /\ key[6] \in {101, 69}
    /\ key[7] \in {116, 84}

\* lines 133-156: the loop over the parameters: err once a second charset is
\* met, bad once an item is an error (the function has returned by then)
RECURSIVE charset_loop(_, _)
\* the body of the loop, for the item n the iterator gave
charset_item(n, acc) ==
    IF n.item = "None" THEN acc
    ELSE IF n.item = "Err" THEN [acc EXCEPT !.bad = TRUE]
    ELSE charset_loop(n.rest,
                      IF ~is_charset_key(n.key) THEN acc
                      ELSE IF IsSome(acc.res) THEN [acc EXCEPT !.err = TRUE]
                      ELSE [acc EXCEPT !.res = Some(Value_value(n.value))])

charset_loop(rest, acc) == charset_item(Iter_next(rest), acc)

\* lines 157-161: what the function returns after the loop
charset_found(acc) ==
    IF acc.bad \/ acc.err THEN [ok |-> FALSE, charset |-> None]
    ELSE [ok |-> TRUE, charset |-> acc.res]

\* lines 126-132: the loop over the parameters of the parsed header
charset_of_parsed(parsed) ==
    IF IsNone(parsed) THEN [ok |-> FALSE, charset |-> None]
    ELSE charset_found(charset_loop(Unwrap(parsed).rest,
                                    [res |-> None, err |-> FALSE, bad |-> FALSE]))

\* charset_from_content_type, lines 125-162: [ok, charset]
charset_from_content_type(header) == charset_of_parsed(ContentType_parse(header))

\* is_utf8, lines 164-170: utf8 or utf-8 in any case
is_utf8(s) ==
    \/ Len(s) = 4 /\ s[1] \in {85, 117} /\ s[2] \in {84, 116} /\ s[3] \in {70, 102}
                  /\ s[4] = 56
    \/ Len(s) = 5 /\ s[1] \in {85, 117} /\ s[2] \in {84, 116} /\ s[3] \in {70, 102}
                  /\ s[4] = 45 /\ s[5] = 56

\* encoding_rs, Encoding::for_label: the label without the ASCII white space
\* around it, in lower case, looked up in the table of labels.  Of the table
\* the model holds latin1, utf-8 and utf8; no label of the table holds a
\* '/', a ';', a '=', a '"' or a space.
IsLabelSpace(c) == c \in {9, 10, 12, 13, 32}

RECURSIVE trim_start(_)
trim_start(s) == IF s # << >> /\ IsLabelSpace(s[1]) THEN trim_start(Tail(s)) ELSE s

RECURSIVE trim_end(_)
trim_end(s) ==
    IF s # << >> /\ IsLabelSpace(s[Len(s)]) THEN trim_end(SubSeq(s, 1, Len(s) - 1))
    ELSE s

to_ascii_lowercase(s) ==
    [i \in 1..Len(s) |-> IF s[i] >= 65 /\ s[i] <= 90 THEN s[i] + 32 ELSE s[i]]

LabelLatin1 == <<108, 97, 116, 105, 110, 49>>
LabelUtf8 == <<117, 116, 102, 45, 56>>
LabelUtf8NoDash == <<117, 116, 102, 56>>

for_label(label) ==
    LET l == to_ascii_lowercase(trim_end(trim_start(label)))
    IN IF l = LabelLatin1 THEN Some("windows-1252")
       ELSE IF l = LabelUtf8 \/ l = LabelUtf8NoDash THEN Some("UTF-8")
       ELSE None

\* Encoding::encode for the texts of the model, which hold characters up to
\* U+00FF other than U+0080..U+009F: windows-1252 writes each as one byte
RECURSIVE encode_windows_1252(_)
encode_windows_1252(text) ==
    IF text = << >> THEN << >>
    ELSE IF text[1] < 128 THEN <<text[1]>> \o encode_windows_1252(Tail(text))
    ELSE <<(text[1] % 4) * 64 + (text[2] % 64)>> \o encode_windows_1252(Tail(Tail(text)))

encode(enc, text) == IF enc = "windows-1252" THEN encode_windows_1252(text) ELSE text

\* the outcome of an into_request: the Content-Type of the request built and
\* its body, or the error and the bytes it carries
Built(ct, body) == [ok |-> TRUE, err |-> "", ct |-> ct, body |-> body]
Failed(e, bytes) == [ok |-> FALSE, err |-> e, ct |-> None, body |-> bytes]

\* the Content-Type Json and Form set
JsonContentType == <<97, 112, 112, 108, 105, 99, 97, 116, 105, 111, 110, 47, 106, 115, 111, 110, 59, 32, 99, 104, 97, 114, 115, 101, 116, 61, 117, 116, 102, 45, 56>>
FormContentType == <<97, 112, 112, 108, 105, 99, 97, 116, 105, 111, 110, 47, 120, 45, 119, 119, 119, 45, 102, 111, 114, 109, 45, 117, 114, 108, 101, 110, 99, 111, 100, 101, 100, 59, 32, 99, 104, 97, 114, 115, 101, 116, 61, 117, 116, 102, 45, 56>>

\* the text in the encoding of the label, or the error that carries the label
encoded_as(enc, label, ct, text) ==
    IF IsNone(enc) THEN Failed("InvalidEncoding", label)
    ELSE Built(ct, encode(Unwrap(enc), text))

\* lines 182-197 and 233-248, 307-322 and 344-359: the arms on the charset cs
\* of the Content-Type ct, label being what is handed to for_label
encoded_by_charset(cs, label, ct, text) ==
    IF ~cs.ok THEN Failed("InvalidContentType", << >>)
    ELSE IF IsNone(cs.charset) THEN Built(ct, text)
    ELSE IF is_utf8(Unwrap(cs.charset)) THEN Built(ct, text)
    ELSE encoded_as(for_label(Unwrap(label)), Unwrap(label), ct, text)

\* IntoRequest for &str and String, lines 172-255: the label looked up is the
\* value of the charset parameter
text_charset(cs, ct, text) == encoded_by_charset(cs, cs.charset, ct, text)

text_into_request(ct, text) ==
    IF IsNone(ct) THEN Built(ct, text)
    ELSE text_charset(charset_from_content_type(Unwrap(ct)), ct, text)

\* IntoRequest for Json<T> and Form<T>, lines 299-371; text is what
\* serde_json::to_string and serde_qs::to_string give.  The label looked up
\* is the whole header value.
structured_into_request(default, ct, text) ==
    IF IsNone(ct) THEN Built(Some(default), text)
    ELSE encoded_by_charset(charset_from_content_type(Unwrap(ct)), ct, ct, text)

\* a codec that sets its Content-Type whatever the caller supplied
codec_into_request_overriding(codec, ct, text) ==
    IF codec = "json" THEN Built(Some(JsonContentType), text)
    ELSE IF codec = "form" THEN Built(Some(FormContentType), text)
    ELSE Built(ct, text)

\* IntoRequest, by codec: (), &[u8] / Vec<u8>, &str / String, Json, Form
codec_into_request(codec, ct, text) ==
    IF codec = "unit" THEN Built(ct, << >>)
    ELSE IF codec = "bytes" THEN Built(ct, text)
    ELSE IF codec = "text" THEN text_into_request(ct, text)
    ELSE structured_into_request(IF codec = "json" THEN JsonContentType
                                 ELSE FormContentType, ct, text)

\* what follows the status test in the text and JSON codecs (lines 269-295,
\* 385-404, 423-444): the charset of the answer, then the body
decoded_by_charset(cs) ==
    IF ~cs.ok THEN Err("InvalidContentType")
    ELSE IF IsNone(cs.charset) THEN Ok
    ELSE IF is_utf8(Unwrap(cs.charset)) THEN Ok
    ELSE IF IsNone(for_label(Unwrap(cs.charset))) THEN Err("InvalidEncoding")
    ELSE Ok

decoded(ct) ==
    IF IsNone(ct) THEN Ok
    ELSE decoded_by_charset(charset_from_content_type(Unwrap(ct)))

\* FromResponse, by codec: () (lines 56-71), Vec<u8> (104-123), String
\* (257-297), Json (373-406), seeded Json (408-446), BooksPage (book.rs
\* 392-433)
codec_from_response(codec, status, ct) ==
    IF codec = "unit"
    THEN IF is_success(status) THEN Ok ELSE StatusCode(status)
    ELSE IF status # 200 THEN StatusCode(status)
    ELSE IF codec = "bytes" THEN Ok
    ELSE decoded(ct)

RequestCodecs == {"unit", "bytes", "text", "json", "form"}
ResponseCodecs == {"unit", "bytes", "text", "json", "seeded", "page"}

\* Content-Type headers: "t/h";
\* "t/h; charset=utf-8";
\* "t/h;charset=UTF8";
\* "t/h; CharSet=latin1";
\* "t/h; charset="latin1"";
\* "t/h; charset=nope";
\* "t/h; charset= latin1";
\* "t/h; charset=latin1; charset=utf-8";
\* "t/h; x=latin1";
\* "t/h; charset=Latin1<tab>"
CodecHeaders ==
    {<<116, 47, 104>>,
     <<116, 47, 104, 59, 32, 99, 104, 97, 114, 115, 101, 116, 61, 117, 116, 102, 45, 56>>,
     <<116, 47, 104, 59, 99, 104, 97, 114, 115, 101, 116, 61, 85, 84, 70, 56>>,
     <<116, 47, 104, 59, 32, 67, 104, 97, 114, 83, 101, 116, 61, 108, 97, 116, 105, 110, 49>>,
     <<116, 47, 104, 59, 32, 99, 104, 97, 114, 115, 101, 116, 61, 34, 108, 97, 116, 105, 110, 49, 34>>,
     <<116, 47, 104, 59, 32, 99, 104, 97, 114, 115, 101, 116, 61, 110, 111, 112, 101>>,
     <<116, 47, 104, 59, 32, 99, 104, 97, 114, 115, 101, 116, 61, 32, 108, 97, 116, 105, 110, 49>>,
     <<116, 47, 104, 59, 32, 99, 104, 97, 114, 115, 101, 116, 61, 108, 97, 116, 105, 110, 49, 59, 32, 99, 104, 97, 114, 115, 101, 116, 61, 117, 116, 102, 45, 56>>,
     <<116, 47, 104, 59, 32, 120, 61, 108, 97, 116, 105, 110, 49>>,
     <<116, 47, 104, 59, 32, 99, 104, 97, 114, 115, 101, 116, 61, 76, 97, 116, 105, 110, 49, 9>>}

\* texts: empty, ab, and e with acute accent (U+00E9) between a and b
CodecTexts == {<< >>, <<97, 98>>, <<97, 195, 169, 98>>}

CodecStatuses == {200, 201, 204, 206, 301, 304, 401, 404, 500}

\* the locals of a codec call: the codec, the Content-Type of the parts it is
\* given, the text to encode, the status of the answer to decode, and what
\* into_request built
CodecLocals(codec, ct, text, status) ==
    [codec |-> codec, ct |-> ct, text |-> text, status |-> status,
     built |-> Failed("none", << >>)]

IntoRequest ==
    /\ pc = "idle"
    /\ op = "none"
    /\ locals.codec \in RequestCodecs
    /\ op' = "into_request"
    /\ locals' = [locals EXCEPT !.built =
                    codec_into_request(locals.codec, locals.ct, locals.text)]
    /\ result' = IF locals'.built.ok THEN Ok ELSE Err(locals'.built.err)
    /\ UNCHANGED <<store, last, dirty, settings, cookies, pc, stack, tgt, rq, hops,
                   wire, ret, resUrl, authHdr, ukey, sends, firstStatus, refreshed,
                   calls, obs>>

FromResponse ==
    /\ pc = "idle"
    /\ op = "none"
    /\ locals.codec \in ResponseCodecs
    /\ op' = "from_response"
    /\ result' = codec_from_response(locals.codec, locals.status, locals.ct)
    /\ UNCHANGED <<store, last, dirty, settings, cookies, pc, stack, tgt, rq, hops,
                   wire, ret, resUrl, authHdr, ukey, sends, firstStatus, refreshed,
                   calls, obs, locals>>

\* the codecs on their own: one call of into_request or from_response
InitCodec ==
    /\ store = NoStore
    /\ last = Loaded
    /\ AtRest
    /\ locals \in {CodecLocals(c, ct, t, s) :
                    c \in RequestCodecs \cup ResponseCodecs,
                    ct \in OptionOf(CodecHeaders),
                    t \in CodecTexts,
                    s \in CodecStatuses}

NextCodec ==
    \/ IntoRequest
    \/ FromResponse

SpecCodec == InitCodec /\ [][NextCodec]_vars

-----------------------------------------------------------------------------
(* kobo/book.rs: the content-access descriptor *)

starts_with(s, prefix) ==
    Len(s) >= Len(prefix) /\ SubSeq(s, 1, Len(prefix)) = prefix

\* str::split("&"): the pieces between the '&' bytes
RECURSIVE split_amp(_, _)
split_amp(s, piece) ==
    IF s = << >> THEN <<piece>>
    ELSE IF s[1] = 38 THEN <<piece>> \o split_amp(Tail(s), << >>)
    ELSE split_amp(Tail(s), Append(piece, s[1]))

KeyB == <<98>>
KeyBEq == <<98, 61>>
Key62Eq == <<37, 54, 50, 61>>
Key62 == <<37, 54, 50>>

\* book.rs lines 494-497: the pairs that are dropped
is_tracking_pair(kv) ==
    \/ starts_with(kv, KeyBEq)
    \/ starts_with(kv, Key62Eq)
    \/ kv = KeyB
    \/ kv = Key62Eq

\* lines 491-506: qs and f after the loop over the non-empty pieces
RECURSIVE filter_pairs(_, _)
filter_pairs(pieces, acc) ==
    IF pieces = << >> THEN acc
    ELSE IF pieces[1] = << >> THEN filter_pairs(Tail(pieces), acc)
    ELSE IF is_tracking_pair(pieces[1])
    THEN filter_pairs(Tail(pieces), [acc EXCEPT !.f = TRUE])
    ELSE filter_pairs(Tail(pieces),
                      [acc EXCEPT !.qs = IF acc.qs = << >> THEN pieces[1]
                                         ELSE acc.qs \o <<38>> \o pieces[1]])

\* lines 490-511: the query of the download URL after the filter
filtered_query(query) ==
    IF IsNone(query) THEN query
    ELSE LET r == filter_pairs(split_amp(Unwrap(query), << >>),
                               [qs |-> << >>, f |-> FALSE])
         IN IF ~r.f THEN query
            ELSE IF r.qs = << >> THEN None
            ELSE Some(r.qs)

\* A descriptor, by what its parser finds in it.  form is "array" or
\* "object".  urls are the elements of ContentUrls (None: the element is
\* missing), each with valid (it deserializes as a RawContentUrl), drm (its
\* DRMType is KDRM) and the query of its DownloadUrl.  keys is "absent",
\* "valid" or "invalid": the ContentKeys element and whether it and its keys
\* deserialize.
Descriptor(form, urls, keys) == [form |-> form, urls |-> urls, keys |-> keys]

ParseError == [ok |-> FALSE]
Parsed_(v) == [ok |-> TRUE, value |-> v]

\* serde_json, Deserializer::end_seq after visit_seq has returned: elements
\* the visitor left unread are an error
end_seq(r, unread) == IF r.ok /\ unread > 0 THEN ParseError ELSE r

\* ContentUrlVisitor::visit_seq, lines 486-521: the first element that
\* deserializes is the content URL; i is the element read next
RECURSIVE ContentUrl_visit_seq(_, _)
ContentUrl_visit_seq(urls, i) ==
    IF i > Len(urls) THEN ParseError
    ELSE IF ~urls[i].valid THEN ContentUrl_visit_seq(urls, i + 1)
    ELSE end_seq(Parsed_([has_drm |-> urls[i].drm,
                          query |-> filtered_query(urls[i].query)]),
                 Len(urls) - i)

\* ContentKeysDeserializer::deserialize, lines 776-805, by its outcome
ContentKeys_deserialize(keys) ==
    IF keys = "valid" THEN Parsed_("keys") ELSE ParseError

AccessBook_(url, content_keys) ==
    Parsed_([query |-> url.query, content_keys |-> content_keys])

\* VisitorImpl::visit_seq, lines 887-918, and end_seq for a second element
\* that was not read
AccessBook_visit_seq(d) ==
    IF IsNone(d.urls) THEN ParseError
    ELSE IF ~ContentUrl_visit_seq(Unwrap(d.urls), 1).ok THEN ParseError
    ELSE LET url == ContentUrl_visit_seq(Unwrap(d.urls), 1).value
         IN IF url.has_drm
            THEN IF d.keys = "absent" THEN ParseError
                 ELSE IF ~ContentKeys_deserialize(d.keys).ok THEN ParseError
                 ELSE AccessBook_(url, Some(ContentKeys_deserialize(d.keys).value))
            ELSE end_seq(AccessBook_(url, None), IF d.keys = "absent" THEN 0 ELSE 1)

\* VisitorImpl::visit_map, lines 920-965: every field is deserialized as it
\* is met, then the two are put together
AccessBook_visit_map(d) ==
    IF IsSome(d.urls) /\ ~ContentUrl_visit_seq(Unwrap(d.urls), 1).ok THEN ParseError
    ELSE IF d.keys # "absent" /\ ~ContentKeys_deserialize(d.keys).ok THEN ParseError
    ELSE IF IsNone(d.urls) THEN ParseError
    ELSE LET url == ContentUrl_visit_seq(Unwrap(d.urls), 1).value
         IN IF url.has_drm
            THEN IF d.keys = "absent" THEN ParseError
                 ELSE AccessBook_(url, Some(ContentKeys_deserialize(d.keys).value))
            ELSE AccessBook_(url, None)

\* AccessBookDeserializer::deserialize, lines 816-970
AccessBook_deserialize(d) ==
    IF d.form = "array" THEN AccessBook_visit_seq(d) ELSE AccessBook_visit_map(d)

\* pairs of a query: "b=x", "%62=x", "b", "%62", "%62=", "l=e", "bb=1", "ab=1", "", "B=1"
QueryPairs ==
    {<<98, 61, 120>>,
     <<37, 54, 50, 61, 120>>,
     <<98>>,
     <<37, 54, 50>>,
     <<37, 54, 50, 61>>,
     <<108, 61, 101>>,
     <<98, 98, 61, 49>>,
     <<97, 98, 61, 49>>,
     << >>,
     <<66, 61, 49>>}

\* queries: none, and up to three pairs joined by '&'
Queries ==
    {None} \cup {Some(p) : p \in QueryPairs}
        \cup {Some(p \o <<38>> \o q) : p, q \in QueryPairs}
        \cup {Some(p \o <<38>> \o q \o <<38>> \o r) :
                p \in {KeyBEq \o <<120>>, Key62, <<108, 61, 101>>},
                q, r \in QueryPairs}

RawContentUrl(valid, drm, query) == [valid |-> valid, drm |-> drm, query |-> query]

\* the ContentUrls of the model: none; one that does not deserialize; one
\* that does, alone, after one that does not, or before another
ContentUrlLists ==
    {<< >>, <<RawContentUrl(FALSE, FALSE, None)>>}
        \cup {<<RawContentUrl(TRUE, drm, q)>> : drm \in BOOLEAN, q \in Queries}
        \cup {<<RawContentUrl(FALSE, TRUE, None), RawContentUrl(TRUE, drm, None)>> :
                drm \in BOOLEAN}
        \cup {<<RawContentUrl(TRUE, drm, None), RawContentUrl(TRUE, ~drm, None)>> :
                drm \in BOOLEAN}

Descriptors ==
    {Descriptor(form, urls, keys) :
        form \in {"array", "object"},
        urls \in OptionOf(ContentUrlLists),
        keys \in {"absent", "valid", "invalid"}}

\* the locals of a descriptor parse: the descriptor and what came of it
AccessLocals(d) == [descriptor |-> d, parsed |-> ParseError]

Deserialize ==
    /\ pc = "idle"
    /\ op = "none"
    /\ op' = "deserialize"
    /\ locals' = [locals EXCEPT !.parsed = AccessBook_deserialize(locals.descriptor)]
    /\ result' = IF locals'.parsed.ok THEN Ok ELSE Err("Json")
    /\ UNCHANGED <<store, last, dirty, settings, cookies, pc, stack, tgt, rq, hops,
                   wire, ret, resUrl, authHdr, ukey, sends, firstStatus, refreshed,
                   calls, obs>>

\* the descriptor parser on its own: any descriptor, parsed once
InitAccess ==
    /\ store = NoStore
    /\ last = Loaded
    /\ AtRest
    /\ locals \in {AccessLocals(d) : d \in Descriptors}

NextAccess == Deserialize

SpecAccess == InitAccess /\ [][NextAccess]_vars

-----------------------------------------------------------------------------
(* main.rs: download_zip with content keys, and decrypt_zip *)

\* entries an input container holds at most
MaxEntries == 2

\* bytes a download or a container holds at most
MaxBytes == 3

\* An entry of the input container: its name, its content, and plain, what
\* AES-128-ECB decryption and PKCS7 unpadding of the content give under the
\* key the content-key map holds for the name (None: the padding is invalid).
\* The map is modelled by the set of the names it holds.
ZipEntry(name, content, plain) == [name |-> name, content |-> content, plain |-> plain]

ZipNames == {"OEBPS/a.xhtml", "mimetype"}

ZipEntries ==
    {ZipEntry(n, c, p) : n \in ZipNames,
                         c \in {"content 1", "content 2"},
                         p \in {None, Some("plain text")}}

RECURSIVE SeqsUpTo(_, _)
SeqsUpTo(S, n) ==
    IF n = 0 THEN {<< >>}
    ELSE SeqsUpTo(S, n - 1)
            \cup {Append(s, x) : s \in {t \in SeqsUpTo(S, n - 1) : Len(t) = n - 1},
                                 x \in S}

\* the output path: "absent", or what the file at the path holds: "old" (what
\* it held before the run), "empty" (created or truncated, nothing written),
\* "partial" (a container that is not finalized), "complete"
\* the locals of download_zip and decrypt_zip: the names of content_keys; the
\* container the server sends; the file at the output path, and before the
\* run; whether the temporary file exists; the entries written to the output
\* container; whether it is finalized; size, the byte size of the download
\* the descriptor gives; len, the length of the file the run made at the output
\* path; written, the bytes the container writer produced
ZipLocals(keys, input, path, size) ==
    [keys |-> keys, input |-> input, path |-> path, before |-> path,
     tmp |-> FALSE, out |-> << >>, finalized |-> FALSE,
     size |-> size, len |-> 0, written |-> 0]

\* download_zip, lines 564-577: the temporary file for the download
DownloadZip ==
    /\ pc = "idle"
    /\ op = "none"
    /\ op' = "download_zip"
    /\ \E created \in BOOLEAN :
          IF created
          THEN /\ locals' = [locals EXCEPT !.tmp = TRUE]
               /\ pc' = "download_zip_download"
               /\ UNCHANGED result
          ELSE /\ result' = Err("Io")
               /\ UNCHANGED <<locals, pc>>
    /\ UNCHANGED <<store, last, dirty, settings, cookies, stack, tgt, rq, hops, wire,
                   ret, resUrl, authHdr, ukey, sends, firstStatus, refreshed, calls,
                   obs>>

\* lines 579-581: the download into the temporary file, which is removed when
\* download_zip returns (Drop for TempFile, lines 499-504)
DownloadToTemp ==
    /\ pc = "download_zip_download"
    /\ \E downloaded \in BOOLEAN :
          IF downloaded
          THEN /\ pc' = "download_zip_create"
               /\ UNCHANGED <<locals, result>>
          ELSE /\ locals' = [locals EXCEPT !.tmp = FALSE]
               /\ result' = Err("Download")
               /\ pc' = "idle"
    /\ UNCHANGED <<store, last, dirty, settings, cookies, stack, op, tgt, rq, hops,
                   wire, ret, resUrl, authHdr, ukey, sends, firstStatus, refreshed,
                   calls, obs>>

\* lines 582-589: File::create on the output path, set_len, and the TempFile
\* guard over it
CreateOutput ==
    /\ pc = "download_zip_create"
    /\ \E outcome \in {"created", "create failed", "set_len failed"} :
          IF outcome = "created"
          THEN /\ locals' = [locals EXCEPT !.path = "empty", !.len = locals.size]
               /\ pc' = "decrypt_zip"
               /\ UNCHANGED result
          ELSE /\ locals' = [locals EXCEPT
                                !.path = IF outcome = "set_len failed" THEN "empty" ELSE @,
                                !.tmp = FALSE]
               /\ result' = Err("Io")
               /\ pc' = "idle"
    /\ UNCHANGED <<store, last, dirty, settings, cookies, stack, op, tgt, rq, hops,
                   wire, ret, resUrl, authHdr, ukey, sends, firstStatus, refreshed,
                   calls, obs>>

\* decrypt_zip returns an error: its ZipWriter is dropped, and the drop of a
\* ZipWriter that was not finished finishes the entry in progress and writes
\* the central directory (zip crate, Drop for ZipWriter); then download_zip
\* returns, both TempFile guards are dropped and their files removed (lines
\* 499-504)
DecryptFailed(e, out) ==
    /\ locals' = [locals EXCEPT !.out = out, !.finalized = TRUE,
                                !.path = "absent", !.tmp = FALSE]
    /\ result' = Err(e)
    /\ pc' = "idle"

\* decrypt_zip, lines 620-622: the writer over the output, the reader over
\* the input
DecryptOpen ==
    /\ pc = "decrypt_zip"
    /\ \E opened \in BOOLEAN :
          IF opened
          THEN /\ pc' = "decrypt_zip_loop"
               /\ UNCHANGED <<locals, result>>
          ELSE DecryptFailed("Zip", locals.out)
    /\ UNCHANGED <<store, last, dirty, settings, cookies, stack, op, tgt, rq, hops,
                   wire, ret, resUrl, authHdr, ukey, sends, firstStatus, refreshed,
                   calls, obs>>

\* decrypt_zip, lines 636-648: what is written for an entry (None: the
\* padding is invalid)
written_entry(keys, e) ==
    IF e.name \in keys
    THEN IF IsNone(e.plain) THEN None
         ELSE Some([name |-> e.name, content |-> Unwrap(e.plain)])
    ELSE Some([name |-> e.name, content |-> e.content])

\* decrypt_zip, lines 633-650: one pass of the loop, for entry Len(out) + 1;
\* by_index may fail, before the entry is started in the output, and so may
\* the reading or the writing of the content, after it
DecryptEntry ==
    /\ pc = "decrypt_zip_loop"
    /\ Len(locals.out) < Len(locals.input)
    /\ LET e == locals.input[Len(locals.out) + 1]
           started == Append(locals.out, [name |-> e.name, content |-> ""])
       IN \E io \in {"done", "by_index failed", "copy failed"} :
             IF io = "by_index failed" THEN DecryptFailed("Zip", locals.out)
             ELSE IF io = "copy failed" THEN DecryptFailed("Io", started)
             ELSE IF IsNone(written_entry(locals.keys, e))
                  THEN DecryptFailed("Unpad", started)
             ELSE /\ locals' = [locals EXCEPT
                                   !.out = Append(@, Unwrap(written_entry(locals.keys, e))),
                                   !.path = "partial"]
                  /\ UNCHANGED <<result, pc>>
    /\ UNCHANGED <<store, last, dirty, settings, cookies, stack, op, tgt, rq, hops,
                   wire, ret, resUrl, authHdr, ukey, sends, firstStatus, refreshed,
                   calls, obs>>

\* the length of a file of length len after bytes were written from its
\* start: writing extends a file and never shortens it
length_after(len, bytes) == IF bytes > len THEN bytes ELSE len

\* decrypt_zip, lines 651-652, then download_zip, lines 592 and 610: finish
\* the container, keep the output file, drop the temporary file.  The
\* container the writer has produced by then, deflated anew, holds any
\* number of bytes up to MaxBytes.
DecryptFinish ==
    /\ pc = "decrypt_zip_loop"
    /\ Len(locals.out) = Len(locals.input)
    /\ \E finished \in BOOLEAN, produced \in 1..MaxBytes :
          IF finished
          THEN /\ locals' = [locals EXCEPT !.finalized = TRUE, !.path = "complete",
                                           !.tmp = FALSE, !.written = produced,
                                           !.len = length_after(@, produced)]
               /\ result' = Ok
               /\ pc' = "idle"
          ELSE /\ locals' = [locals EXCEPT !.path = "absent", !.tmp = FALSE]
               /\ result' = Err("Zip")
               /\ pc' = "idle"
    /\ UNCHANGED <<store, last, dirty, settings, cookies, stack, op, tgt, rq, hops,
                   wire, ret, resUrl, authHdr, ukey, sends, firstStatus, refreshed,
                   calls, obs>>

\* download_zip on its own: any container of at most MaxEntries entries, any
\* content-key map over its names, an output path that exists or not
InitZip ==
    /\ store = NoStore
    /\ last = Loaded
    /\ AtRest
    /\ locals \in {ZipLocals(keys, input, path, size) :
                    keys \in SUBSET ZipNames,
                    input \in SeqsUpTo(ZipEntries, MaxEntries),
                    path \in {"absent", "old"},
                    size \in 1..MaxBytes}

NextZip ==
    \/ DownloadZip
    \/ DownloadToTemp
    \/ CreateOutput
    \/ DecryptOpen
    \/ DecryptEntry
    \/ DecryptFinish

SpecZip == InitZip /\ [][NextZip]_vars

-----------------------------------------------------------------------------
(* main.rs, mod tmp: the registry of the temporary files *)

\* the width of usize in the model, in bits
UsizeBits == 3

RECURSIVE Pow2(_)
Pow2(n) == IF n = 0 THEN 1 ELSE 2 * Pow2(n - 1)

wrapping_add(a, b) == (a + b) % Pow2(UsizeBits)

\* Cleanup::insert, line 446: self.index += self.index.wrapping_add(1); the
\* sum overflows for no value self.index takes (0, 1, 3, 7, ...: all ones)
next_index(index) == (index + wrapping_add(index, 1)) % Pow2(UsizeBits)

\* index and files: the fields of Cleanup; mutex: who holds the Mutex of
\* CLEANUP_FILES; handler: where the thread of the interrupt handler is; held:
\* the keys of the TempFile values alive; key: the key Cleanup::remove is
\* working on; disk: the keys whose files exist
NoCleanup ==
    [index |-> 0, files |-> {}, mutex |-> "free", handler |-> "waiting",
     held |-> {}, key |-> 0, disk |-> {}]

\* the registry steps leave the client and the session alone
RegistryStep ==
    UNCHANGED <<store, last, dirty, settings, cookies, stack, op, tgt, rq, hops, wire,
                ret, resUrl, authHdr, ukey, sends, firstStatus, refreshed, calls,
                result, obs>>

\* TempFile::from_parts, line 482: CLEANUP_FILES.lock(), then insert
FromParts ==
    /\ pc = "idle"
    /\ locals.mutex = "free"
    /\ locals' = [locals EXCEPT !.mutex = "main"]
    /\ pc' = "insert"
    /\ RegistryStep

\* Cleanup::insert, lines 444-454: one pass of the loop; with a vacant entry
\* the path is inserted, the key returned and the guard of the lock dropped
Insert ==
    /\ pc = "insert"
    /\ IF locals.index \in locals.files
       THEN /\ locals' = [locals EXCEPT !.index = next_index(@)]
            /\ UNCHANGED pc
       ELSE /\ locals' = [locals EXCEPT !.index = next_index(@),
                                        !.files = @ \cup {locals.index},
                                        !.held = @ \cup {locals.index},
                                        !.disk = @ \cup {locals.index},
                                        !.mutex = "free"]
            /\ pc' = "idle"
    /\ RegistryStep

\* TempFile::keep, lines 490-496, with Cleanup::ignore, lines 461-463: the
\* unwrap panics when the key is not in the registry
Keep ==
    /\ pc = "idle"
    /\ locals.mutex = "free"
    /\ \E k \in locals.held :
          /\ locals' = [locals EXCEPT !.files = @ \ {k}, !.held = @ \ {k}]
          /\ pc' = IF k \in locals.files THEN "idle" ELSE "panicked"
    /\ RegistryStep

\* Drop for TempFile, lines 499-503, with Cleanup::remove, line 458: lock,
\* then ignore
Drop ==
    /\ pc = "idle"
    /\ locals.mutex = "free"
    /\ \E k \in locals.held :
          IF k \in locals.files
          THEN /\ locals' = [locals EXCEPT !.files = @ \ {k}, !.held = @ \ {k},
                                           !.key = k, !.mutex = "main"]
               /\ pc' = "remove"
          ELSE /\ locals' = [locals EXCEPT !.held = @ \ {k}]
               /\ pc' = "panicked"
    /\ RegistryStep

\* Cleanup::remove, line 458: remove_file, then the guard of the lock is
\* dropped
RemoveFile ==
    /\ pc = "remove"
    /\ locals' = [locals EXCEPT !.disk = @ \ {locals.key}, !.mutex = "free"]
    /\ pc' = "idle"
    /\ RegistryStep

\* destroy, line 433, on the thread of the interrupt handler: finalize on
\* the registry reached through data_ptr(), without the lock.  While the main
\* thread is inside the registry the two accesses race, and any part of the
\* registry may be what finalize finds.
Destroy ==
    /\ pc \notin {"exited", "panicked"}
    /\ locals.handler = "waiting"
    /\ \E found \in SUBSET locals.files :
          /\ locals.mutex = "free" => found = locals.files
          /\ locals' = [locals EXCEPT !.handler = "finalize",
                                      !.files = @ \ found,
                                      !.disk = @ \ found]
    /\ UNCHANGED pc
    /\ RegistryStep

\* destroy, line 434: std::process::exit(130)
Exit ==
    /\ locals.handler = "finalize"
    /\ pc # "exited"
    /\ locals' = [locals EXCEPT !.handler = "exited"]
    /\ pc' = "exited"
    /\ RegistryStep

\* the registry on its own, as the LazyLock makes it (lines 423-430)
InitCleanup ==
    /\ store = NoStore
    /\ last = Loaded
    /\ AtRest
    /\ locals = NoCleanup

NextCleanup ==
    \/ FromParts
    \/ Insert
    \/ Keep
    \/ Drop
    \/ RemoveFile
    \/ Destroy
    \/ Exit

SpecCleanup == InitCleanup /\ [][NextCleanup]_vars

-----------------------------------------------------------------------------
(* Claims about the credential state machine *)

\* C1: after any sequence of SessionAdapter mutators on any stored snapshot the
\* guarded getters agree: access_token() is present only with device_id() and
\* refresh_token(), refresh_token() only with access_token() and device_id(),
\* user_key() exactly when user_id(), and then is_auth_set() holds.
C1_GettersConsistent ==
    /\ IsSome(access_token(store)) =>
          IsSome(device_id(store)) /\ IsSome(refresh_token(store))
    /\ IsSome(refresh_token(store)) =>
          IsSome(access_token(store)) /\ IsSome(device_id(store))
    /\ IsSome(user_key(store)) <=> IsSome(user_id(store))
    /\ IsSome(user_key(store)) => is_auth_set(store)

\* an operation has run and left an access token stored without its co-fields:
\* the getter hides it
C1_Witness ==
    /\ last.op = "set_user_key"
    /\ IsSome(store["AccessToken"])
    /\ IsNone(store["RefreshToken"])
    /\ IsNone(access_token(store))

\* C2: set_device_id(id) with a non-empty id leaves device_id = id and the
\* other four fields absent from the store, whatever the state before.
C2_SetDeviceIdClears ==
    (last.op = "set_device_id" /\ ~is_empty(last.a1)) =>
        /\ store["DeviceId"] = Some(last.a1)
        /\ device_id(store) = Some(last.a1)
        /\ \A f \in Fields \ {"DeviceId"} : store[f] = None

C2_Witness ==
    /\ last.op = "set_device_id"
    /\ ~is_empty(last.a1)
    /\ \A f \in Fields : IsSome(last.pre[f])
    /\ last.pre["DeviceId"] # Some(last.a1)

\* C3: set_tokens and refresh_tokens called with an empty access or an empty
\* refresh string leave all five stored fields as they were.
C3_EmptyTokenNoop ==
    (/\ last.op \in {"set_tokens", "refresh_tokens"}
     /\ (is_empty(last.a1) \/ is_empty(last.a2))) =>
        store = last.pre

C3_Witness ==
    /\ last.op = "set_tokens"
    /\ is_empty(last.a1)
    /\ ~is_empty(last.a2)
    /\ \A f \in Fields : IsSome(gets(last.pre, f))
    /\ last.pre["RefreshToken"] # Some(last.a2)

\* C4: with both arguments non-empty refresh_tokens(a, r) stores a and r and
\* leaves device_id, user_key, user_id alone; set_tokens(a, r) stores a and r,
\* removes user_key and user_id and leaves device_id alone.
C4_TokensSet ==
    (/\ last.op \in {"set_tokens", "refresh_tokens"}
     /\ ~is_empty(last.a1)
     /\ ~is_empty(last.a2)) =>
        /\ store["AccessToken"] = Some(last.a1)
        /\ store["RefreshToken"] = Some(last.a2)
        /\ store["DeviceId"] = last.pre["DeviceId"]
        /\ last.op = "refresh_tokens" =>
              /\ store["UserKey"] = last.pre["UserKey"]
              /\ store["UserId"] = last.pre["UserId"]
        /\ last.op = "set_tokens" =>
              /\ store["UserKey"] = None
              /\ store["UserId"] = None

C4_Witness ==
    /\ last.op = "set_tokens"
    /\ ~is_empty(last.a1)
    /\ ~is_empty(last.a2)
    /\ IsSome(gets(last.pre, "UserKey"))
    /\ IsSome(gets(last.pre, "UserId"))
    /\ IsSome(gets(last.pre, "DeviceId"))

-----------------------------------------------------------------------------
(* Claims about the request pipeline *)

RawLabels ==
    {"raw_request", "raw_request_recv", "raw_request_loop", "raw_request_loop_recv"}

\* where the answer of an authenticated call is decoded by its caller
CallerLabels == {"settings_store", "book_info_decode"}

\* every position raw_request returns to
ReturnLabels ==
    {"anon_check", "request_check", "refresh_store", "authenticate_device_store",
     "simple_request_decode"} \cup CallerLabels

\* C5: one authenticated call sends the target request at most twice (redirect
\* hops aside); the second send happens only after a first answer with status
\* 401; the answer of the second send goes to the caller whatever its status;
\* there is no third send.
C5_AtMostOneRetry ==
    /\ sends \in {0, 1, 2}
    /\ sends = 2 => firstStatus = 401
    /\ (sends = 2 /\ pc \in RawLabels) => Head(stack) \in CallerLabels
    /\ (sends = 1 /\ pc \in CallerLabels) => ret.status # 401

\* the retry was answered 401 again and that answer is with the caller
C5_Witness ==
    /\ pc = "book_info_decode"
    /\ sends = 2
    /\ firstStatus = 401
    /\ ret.status = 401

\* C6: a logged-in session gets 401, the refresh endpoint answers 200 with a
\* Bearer result holding non-empty tokens A' and R', A' valid in a header: the
\* session then holds A' and R', device_id, user_key and user_id are as
\* before, and the retry carries Authorization: Bearer A'.
C6_Refreshed ==
    /\ refreshed.done
    /\ is_logged_in(refreshed.pre)
    /\ ~is_empty(refreshed.access)
    /\ ~is_empty(refreshed.refresh)
    /\ IsSome(HeaderValue_from_str(refreshed.access))

C6_RefreshThenRetry ==
    C6_Refreshed =>
        /\ store["AccessToken"] = Some(refreshed.access)
        /\ store["RefreshToken"] = Some(refreshed.refresh)
        /\ store["DeviceId"] = refreshed.pre["DeviceId"]
        /\ store["UserKey"] = refreshed.pre["UserKey"]
        /\ store["UserId"] = refreshed.pre["UserId"]
        /\ pc \in {"request_retry", "anon_retry"} =>
              /\ is_logged_in(store)
              /\ authHdr = Some(Bearer(refreshed.access))
        /\ (pc = "raw_request_recv" /\ sends = 2) =>
              /\ Unwrap(wire).url = tgt.url
              /\ Unwrap(wire).headers["authorization"] = Bearer(refreshed.access)

C6_Witness ==
    /\ C6_Refreshed
    /\ pc = "raw_request_recv"
    /\ Head(stack) = "book_info_decode"
    /\ sends = 2
    /\ refreshed.pre["AccessToken"] = Some(StrA)
    /\ refreshed.access = StrB

\* some Location header of the answer converts and joins with the URL
SomeLocationResolves(url, locs) ==
    \E i \in 1..Len(locs) : locs[i].kind \in {"relative", "absolute"}

\* the join of the first Location header that resolves
FirstLocation(url, locs) ==
    LET i == CHOOSE k \in 1..Len(locs) :
                /\ locs[k].kind \in {"relative", "absolute"}
                /\ \A j \in 1..(k - 1) : locs[j].kind \notin {"relative", "absolute"}
    IN  IF locs[i].kind = "relative"
        THEN Url(url.host, locs[i].path)
        ELSE Url(locs[i].host, locs[i].path)

\* C7: raw_request follows a 3xx answer with a resolvable Location by a GET
\* without body to the resolved URL, and what it returns is never a 3xx
\* answer that carries a resolvable Location.
C7_RedirectsFollowed ==
    /\ pc \in ReturnLabels =>
          ~(is_redirection(ret.status) /\ SomeLocationResolves(resUrl, ret.locs))
    /\ pc \in {"raw_request_loop", "raw_request_loop_recv"} =>
          /\ is_redirection(ret.status)
          /\ SomeLocationResolves(resUrl, ret.locs)
          /\ rq = Request("GET", FirstLocation(resUrl, ret.locs), NoHeaders, "unit")
    /\ pc = "raw_request_loop_recv" =>
          /\ Unwrap(wire).method = "GET"
          /\ Unwrap(wire).body = "None"
          /\ Unwrap(wire).url = FirstLocation(resUrl, ret.locs)

\* a second redirect is being followed, to the second Location header of the
\* answer because the first does not resolve
C7_Witness ==
    /\ pc = "raw_request_loop_recv"
    /\ hops = 2
    /\ ret.status = 302
    /\ ret.locs = <<BadLoc, RelLoc>>
    /\ Unwrap(wire).url = Url(resUrl.host, "/moved")

\* RFC 7230 tchar
TokenChars ==
    {33, 35, 36, 37, 38, 39, 42, 43, 45, 46, 94, 95, 96, 124, 126}
        \cup (48..57) \cup (65..90) \cup (97..122)

\* printable ASCII other than space, '"', ',', ';' and '\'
CookieValueChars == (33..126) \ {34, 44, 59, 92}

CookieMayBeSent(c) ==
    /\ \A i \in 1..Len(c.name) : c.name[i] \in TokenChars
    /\ \A i \in 1..Len(c.value) : c.value[i] \in CookieValueChars

C8_HeaderCompliant ==
    IsSome(wire) =>
        /\ \A c \in Unwrap(wire).headers["cookie"] : CookieMayBeSent(c)
        /\ \A c \in cookies :
              ~CookieMayBeSent(c) => stripped(c) \notin Unwrap(wire).headers["cookie"]

\* C8: every cookie put into a Cookie header has a token as name and a value
\* of printable ASCII without whitespace, '"', ',', ';', '\'; a stored cookie
\* that fails the test is never sent, and building the header leaves the jar
\* as it is.
C8_OnlyCompliantCookiesSent ==
    /\ [](C8_HeaderCompliant)
    /\ [][(IsNone(wire) /\ IsSome(wire')) => cookies' = cookies]_vars

\* a request goes out with the compliant cookie while the jar holds, for the
\* same host, a cookie with a bad value and one with a bad name
C8_Witness ==
    /\ IsSome(wire)
    /\ Unwrap(wire).headers["cookie"] = {CookieS}
    /\ {c \in cookies : c.host = Unwrap(wire).url.host} =
          {[name |-> k.name, value |-> k.value, host |-> Unwrap(wire).url.host] :
              k \in {CookieS, CookieT, CookieP}}

\* the headers every request carries, by lower-cased name
FixedHeaders ==
    [n \in {"user-agent", "x-kobo-affiliatename", "x-kobo-appversion",
            "x-kobo-platformid", "x-kobo-carriername", "x-kobo-devicemodel",
            "x-kobo-deviceos", "x-kobo-deviceosversion", "x-requested-with",
            "accept-encoding"} |->
        CASE n = "user-agent" -> USER_AGENT
          [] n = "x-kobo-affiliatename" -> "Kobo"
          [] n = "x-kobo-appversion" -> "10.1.2.39807"
          [] n = "x-kobo-platformid" -> "00000000-0000-0000-0000-000000004000"
          [] n = "x-kobo-carriername" -> "310270"
          [] n = "x-kobo-devicemodel" -> "Pixel"
          [] n = "x-kobo-deviceos" -> "Android"
          [] n = "x-kobo-deviceosversion" -> "33"
          [] n = "x-requested-with" -> "com.kobobooks.android"
          [] n = "accept-encoding" -> "gzip, deflate"]

CarriesFixedHeaders(h) ==
    \A n \in DOMAIN FixedHeaders : n \in DOMAIN h /\ h[n] = FixedHeaders[n]

\* header maps of a caller that sets some of the fixed names itself
CallerHeaders ==
    {NoHeaders,
     HeaderInsert(NoHeaders, "user-agent", "curl/8.0"),
     HeaderInsert(HeaderInsert(NoHeaders, "accept-encoding", "br"),
                  "x-kobo-appversion", "1.0")}

\* C9: every request handed to the Transport carries the fixed User-Agent,
\* the vendor headers, X-Requested-With and Accept-Encoding with their fixed
\* values, whatever the caller had put under those names.
C9_FixedHeadersOnEveryRequest ==
    /\ IsSome(wire) => CarriesFixedHeaders(Unwrap(wire).headers)
    /\ \A h \in CallerHeaders : CarriesFixedHeaders(default_headers(h))

\* the redirect follow-up of a device authentication is with the Transport
C9_Witness ==
    /\ pc = "raw_request_loop_recv"
    /\ Head(stack) = "authenticate_device_store"
    /\ IsSome(wire)
    /\ Unwrap(wire).url = Url(ApiHost, "/moved")

DownloadEnded == op = "download" /\ pc = "idle"

\* C10 as claimed: no Transport call and NotLoggedIn when the session is not
\* fully logged in; otherwise exactly one Transport download call.
C10_AsClaimed ==
    DownloadEnded =>
        IF ~is_logged_in(store)
        THEN calls = 0 /\ result = Err("NotLoggedIn")
        ELSE calls = 1

\* C10, amended: download makes no Transport call and returns NotLoggedIn when
\* the session is not fully logged in or no header value can be built from
\* its access token; otherwise it makes exactly one Transport download call
\* carrying Bearer <access_token>, with no refresh, retry or redirect
\* follow-up, and returns a status-code error for every status outside 2xx.
C10_DownloadOnce ==
    /\ DownloadEnded =>
          IF ~is_logged_in(store)
                \/ IsNone(HeaderValue_from_str(Unwrap(store["AccessToken"])))
          THEN calls = 0 /\ result = Err("NotLoggedIn")
          ELSE /\ calls = 1
               /\ result \in {Ok, Err("Transport"), StatusCode(firstStatus)}
               /\ result = Ok => firstStatus \in 200..299
               /\ result = StatusCode(firstStatus) => firstStatus \notin 200..299
    /\ (op = "download" /\ pc = "download_recv") =>
          /\ calls = 1
          /\ is_logged_in(store)
          /\ Unwrap(wire).kind = "download"
          /\ Unwrap(wire).headers["authorization"] = Bearer(Unwrap(store["AccessToken"]))
    /\ op = "download" => pc \in {"idle", "download_recv"}

\* a download answered 401 has ended with that status as error, after one call
C10_Witness ==
    /\ DownloadEnded
    /\ is_logged_in(store)
    /\ calls = 1
    /\ firstStatus = 401
    /\ result = StatusCode(401)

-----------------------------------------------------------------------------
(* Claims about authorization and persistence *)

\* C11: when get_authorization finds an observable access token from which no
\* Authorization header value can be built, it clears the stored access and
\* refresh tokens, so that the device authentication of this loop pass sends
\* its request.
C11_ClearsUnusableToken ==
    [][(/\ pc = "get_authorization"
        /\ IsSome(access_token(store))
        /\ IsNone(bearer_header(store)))
       => (/\ IsNone(store'["AccessToken"])
           /\ IsNone(store'["RefreshToken"])
           /\ ~is_auth_set(store'))]_vars

\* C12: when every device authentication answers 200 with a Bearer result of
\* non-empty tokens that are valid header values and every save() succeeds,
\* get_authorization returns after at most two passes through its loop,
\* whatever the stored credentials were.
C12_AtMostTwoPasses == obs.iters <= 2

\* C13: whenever a pipeline operation returns successfully, every change it
\* made to a stored credential field has been followed by a save().
C13_SavedBeforeReturn == (pc = "idle" /\ result.ok) => ~dirty

\* C14: when save() fails in get_authorization or in login, the operation
\* ends there with the Session error and nothing is with the Transport.
C14_SaveFailureReturned ==
    obs.saved = "failed" =>
        /\ pc = "idle"
        /\ stack = << >>
        /\ result = Err("Session")
        /\ IsNone(wire)

\* the save at the end of a login failed: the login ended with the Session
\* error and its changes are not saved
C14_Witness ==
    /\ obs.saved = "failed"
    /\ op = "login"
    /\ result = Err("Session")
    /\ IsSome(store["UserId"])
    /\ dirty

\* the token-refresh call of an authenticated call is in progress
InRefreshCall ==
    \/ pc = "refresh_store"
    /\ pc \in {"raw_request", "raw_request_recv"}
       /\ Head(stack) = "refresh_store"

-----------------------------------------------------------------------------
(* Claims about the public operations *)

CatalogOps == {"book_list", "book_info", "access_book"}
TargetUrls == {SyncUrl, BookUrl, AccessUrl}

\* C16 as claimed, for the sessions that hold a usable access token: on a
\* session that is not fully logged in, book_list, book_info and access_book
\* return NotLoggedIn.
C16_AsClaimed ==
    (/\ pc = "idle"
     /\ op \in CatalogOps
     /\ ~is_logged_in(obs.begin)
     /\ IsSome(bearer_header(obs.begin)))
    => result = Err("NotLoggedIn")

\* C16, amended: on a session that is not fully logged in, book_list,
\* book_info and access_book never send their target request; when they
\* return, they return NotLoggedIn if the endpoint settings are cached by
\* then, and otherwise the error that ended the fetch of the settings;
\* access_book returns NotLoggedIn before its request whenever device_id() or
\* user_id() is absent.
C16_NoTargetRequest ==
    /\ []((IsSome(wire) /\ Unwrap(wire).url \in TargetUrls) =>
            /\ is_logged_in(store)
            /\ is_logged_in(obs.begin))
    /\ []((pc = "idle" /\ op \in CatalogOps /\ ~is_logged_in(obs.begin)) =>
            /\ ~result.ok
            /\ settings => result = Err("NotLoggedIn")
            /\ ~settings => result # Err("NotLoggedIn"))
    /\ [][(pc = "access_book_key"
            /\ (IsNone(device_id(store)) \/ IsNone(user_id(store)))) =>
            /\ pc' = "idle"
            /\ result' = Err("NotLoggedIn")
            /\ calls' = calls
            /\ IsNone(wire')]_vars

\* access_book on a session with tokens but no user: the settings were
\* fetched by this call, then NotLoggedIn
C16_Witness ==
    /\ pc = "idle"
    /\ op = "access_book"
    /\ is_auth_set(obs.begin)
    /\ ~is_logged_in(obs.begin)
    /\ calls = 1
    /\ settings
    /\ result = Err("NotLoggedIn")

\* C17: the initialization endpoint is fetched successfully at most once by
\* one client: once cached the settings stay cached and settings() returns
\* without a Transport call; a fetch that fails leaves the cache empty, and
\* settings() with an empty cache fetches.
C17_SettingsFetchedOnce ==
    /\ [](obs.fetches <= 1)
    /\ [](settings <=> obs.fetches = 1)
    /\ []((IsSome(wire) /\ Unwrap(wire).url = InitUrl) => ~settings)
    /\ [][settings => settings']_vars
    /\ [][(pc = "settings" /\ settings) =>
            /\ pc' = Head(stack)
            /\ calls' = calls
            /\ wire' = wire]_vars
    /\ [][(pc = "settings" /\ ~settings) =>
            /\ pc' = "_anon_raw_request"
            /\ tgt'.url = InitUrl]_vars
    /\ [][(pc = "settings_store" /\ pc' = "idle") => ~settings']_vars
    /\ [][settings' # settings =>
            /\ pc = "settings_store"
            /\ ret.status = 200
            /\ ret.body.kind = "settings"]_vars

\* a book_info that found the settings cached: its one Transport call is the
\* target request
C17_Witness ==
    /\ pc = "idle"
    /\ op = "book_info"
    /\ settings
    /\ obs.fetches = 1
    /\ calls = 1
    /\ result = Ok

\* C18: authenticate_device called with no user key, or an empty one, on a
\* session where is_auth_set() holds makes no Transport call and leaves the
\* five credential fields as they are.
C18_NoopWhenAuthSet ==
    (/\ pc \in {"get_authorization_save", "login_set_user_id"}
     /\ is_auth_set(obs.authPre)
     /\ (IsNone(ukey) \/ is_empty(Unwrap(ukey))))
    => (/\ store = obs.authPre
        /\ calls = obs.authCalls
        /\ IsNone(wire))

\* login on a session with tokens found an empty userKey parameter
C18_Witness ==
    /\ pc = "login_set_user_id"
    /\ ukey = Some(EmptyString)
    /\ is_auth_set(obs.authPre)
    /\ store = obs.authPre

\* authenticate_device has returned after a 200 answer of the device-
\* authentication endpoint with a Bearer result of non-empty tokens
Contacted ==
    /\ pc \in {"get_authorization_save", "login_set_user_id"}
    /\ resUrl = DeviceAuthUrl
    /\ ret.status = 200
    /\ ret.body.kind = "tokens"
    /\ ret.body.token_type = "Bearer"
    /\ ~is_empty(ret.body.access)
    /\ ~is_empty(ret.body.refresh)

\* what C19 says of every field but the user key
C19_TokensAndIds ==
    /\ store["AccessToken"] = Some(ret.body.access)
    /\ store["RefreshToken"] = Some(ret.body.refresh)
    /\ IsNone(store["UserId"])
    /\ store["DeviceId"] = IF IsSome(obs.authPre["DeviceId"])
                           THEN obs.authPre["DeviceId"]
                           ELSE Some(NewDeviceId)

\* C19 as claimed: after such a device authentication the session holds the
\* returned tokens, no user id, the returned user key if the call was made
\* with a user key and none otherwise, and a new device id only when none
\* was stored.
C19_AsClaimed ==
    Contacted =>
        /\ C19_TokensAndIds
        /\ store["UserKey"] = IF IsSome(ukey) THEN ret.body.user_key ELSE None

\* C19, amended: ... the returned user key if the call was made with a user
\* key and the returned key is not empty, and no user key otherwise ...
C19_DeviceAuthStored ==
    Contacted =>
        /\ C19_TokensAndIds
        /\ store["UserKey"] = IF IsSome(ukey) /\ ~is_empty(Unwrap(ret.body.user_key))
                              THEN ret.body.user_key
                              ELSE None

\* login on a logged-in session: the device authentication with the user key
\* of the destination URL has stored the returned tokens and user key
C19_Witness ==
    /\ Contacted
    /\ pc = "login_set_user_id"
    /\ ukey = Some(StrK)
    /\ is_logged_in(obs.authPre)
    /\ store["UserKey"] = Some(StrJ)
    /\ store["AccessToken"] = Some(StrB)

\* the sign-in page or the answer to the form lacks what login needs
NoSignInForm == pc = "login_page" /\ ret.status = 200 /\ IsNone(extract(ret.body))
NoDestination ==
    /\ pc = "login_result"
    /\ ret.status = 200
    /\ \/ ret.body.href # "url"
       \/ IsNone(ret.body.user_id)
       \/ IsNone(ret.body.user_key)

\* login ends with LoginFlow when something it needs is missing
C20_LoginFlow ==
    [][(NoSignInForm \/ NoDestination) =>
        /\ pc' = "idle"
        /\ result' = Err("LoginFlow")
        /\ store' = store
        /\ calls' = calls]_vars

\* C20 as claimed: a login that returns LoginFlow has changed neither the
\* user key nor the user id of the session.
C20_AsClaimed ==
    (pc = "idle" /\ op = "login" /\ result = Err("LoginFlow")) =>
        /\ store["UserKey"] = obs.begin["UserKey"]
        /\ store["UserId"] = obs.begin["UserId"]

\* C20, amended: login returns LoginFlow whenever the workflow id, the
\* anti-forgery token, the destination URL or one of userId and userKey is
\* missing; it has then sent no device-authentication request with a user
\* key, and user_key() and user_id() return what they returned before the
\* login (on a session whose authentication was not set, stored values they
\* did not show may have been removed by a device authentication without
\* user key).  On the success path the order is
\* authenticate_device with the user key found, then set_user_id, then save.
C20_LoginOrder ==
    /\ C20_LoginFlow
    /\ []((pc = "idle" /\ op = "login" /\ result = Err("LoginFlow")) =>
            /\ user_key(store) = user_key(obs.begin)
            /\ user_id(store) = user_id(obs.begin)
            /\ is_auth_set(obs.begin) =>
                  /\ store["UserKey"] = obs.begin["UserKey"]
                  /\ store["UserId"] = obs.begin["UserId"])
    /\ []((op = "login" /\ IsSome(wire) /\ Unwrap(wire).url = DeviceAuthUrl
             /\ IsSome(ukey)) => Head(stack) = "authenticate_device_store"
                                 /\ stack[2] = "login_set_user_id"
                                 /\ IsSome(locals.user_id))
    /\ [][(pc # "authenticate_device" /\ pc' = "authenticate_device"
             /\ op = "login" /\ Head(stack') = "login_set_user_id") =>
            /\ pc = "login_result"
            /\ ukey' = ret.body.user_key
            /\ locals'.user_id = ret.body.user_id]_vars
    /\ [][(pc # "login_set_user_id" /\ pc' = "login_set_user_id") =>
            pc \in {"authenticate_device", "authenticate_device_store"}]_vars
    /\ [][pc = "login_set_user_id" =>
            /\ store' = set_user_id(store, Unwrap(locals.user_id))
            /\ pc' = "login_save"]_vars
    /\ [][(pc # "login_save" /\ pc' = "login_save") => pc = "login_set_user_id"]_vars
    /\ [][(op = "login" /\ pc # "idle" /\ pc' = "idle" /\ result'.ok) =>
            pc = "login_save" /\ store' = store]_vars

\* a login whose form was posted and whose answer lacked the destination
C20_Witness ==
    /\ pc = "idle"
    /\ op = "login"
    /\ result = Err("LoginFlow")
    /\ calls = 2
    /\ settings
    /\ is_logged_in(obs.begin)
    /\ store = obs.begin

\* the continuation token the last decoded page of the listing returned
PreviousToken ==
    IF obs.synced = << >> THEN None ELSE obs.synced[Len(obs.synced)].next

\* a request to the sync endpoint is with the Transport
SyncRequestSent ==
    op = "book_list" /\ IsSome(wire) /\ Unwrap(wire).url = SyncUrl

\* the books of the pages decoded so far, in the order received
RECURSIVE BooksOf(_)
BooksOf(pages) ==
    IF pages = << >> THEN << >> ELSE pages[1].books \o BooksOf(Tail(pages))

Count(x, seq) == Cardinality({i \in 1..Len(seq) : seq[i] = x})

\* the answer under decoding names a continuation token: x-kobo-sync says
\* continue and x-kobo-synctoken holds a non-empty text
TokenReturned ==
    /\ ret.body.sync = "continue"
    /\ IsSome(ret.body.synctoken)
    /\ ~is_empty(Unwrap(ret.body.synctoken))
    /\ is_utf8_text(Unwrap(ret.body.synctoken))

\* C21: the first sync request of a listing carries no x-kobo-synctoken
\* header and every later one carries exactly the token of the page decoded
\* just before it; the listing goes on after a page that returns a token and
\* ends with Ok at the first page that returns none; what it returns then is
\* the books of all the pages fetched, in ascending byte order of their
\* titles; a page that cannot be fetched or decoded ends the listing with
\* the error.
C21_ListingFollowsTokens ==
    /\ [](SyncRequestSent =>
            IF IsNone(PreviousToken)
            THEN "x-kobo-synctoken" \notin DOMAIN Unwrap(wire).headers
            ELSE /\ "x-kobo-synctoken" \in DOMAIN Unwrap(wire).headers
                 /\ Unwrap(wire).headers["x-kobo-synctoken"] = Unwrap(PreviousToken))
    /\ []((op = "book_list" /\ pc = "idle" /\ result.ok) =>
            /\ obs.synced # << >>
            /\ \A i \in 1..Len(obs.synced) :
                    IsNone(obs.synced[i].next) <=> i = Len(obs.synced)
            /\ Len(locals.res) = Len(BooksOf(obs.synced))
            /\ \A i \in 1..Len(locals.res) :
                    Count(locals.res[i], locals.res)
                        = Count(locals.res[i], BooksOf(obs.synced))
            /\ \A i, j \in 1..Len(locals.res) :
                    i < j => ~str_less(locals.res[j].title, locals.res[i].title))
    /\ [][(pc = "book_list_page" /\ ret.status = 200 /\ ret.body.kind = "books") =>
            /\ obs'.synced = Append(obs.synced,
                                    [books |-> ret.body.books,
                                     next |-> IF TokenReturned
                                              THEN ret.body.synctoken ELSE None])
            /\ IF TokenReturned
               THEN pc' = "settings" /\ Head(stack') = "sync_page"
               ELSE pc' = "idle" /\ result' = Ok]_vars
    /\ [][(pc = "book_list_page" /\ ~(ret.status = 200 /\ ret.body.kind = "books")) =>
            /\ pc' = "idle"
            /\ ~result'.ok
            /\ result' = IF ret.status # 200 THEN StatusCode(ret.status)
                         ELSE Err("Json")]_vars
    /\ [][(op = "book_list" /\ pc # "idle" /\ pc' = "idle" /\ result'.ok) =>
            pc = "book_list_page"]_vars

\* a listing of three pages: the second request carried the first token, the
\* third the second, and the books came back in another order than received
C21_Witness ==
    /\ op = "book_list"
    /\ pc = "idle"
    /\ result.ok
    /\ Len(obs.synced) = 3
    /\ obs.synced[1].next = Some(StrT)
    /\ obs.synced[2].next = Some(StrW)
    /\ locals.res = <<BookA, BookA2, BookA2, BookAA, BookAA, BookB>>
    /\ BooksOf(obs.synced) # locals.res

-----------------------------------------------------------------------------
(* Claims about the Content-Type parser and the body codecs *)

\* the grammar, as the specification states it
IsTokenStr(s) == s # << >> /\ \A i \in 1..Len(s) : s[i] \in TokenChars

IsOWS(s) == \A i \in 1..Len(s) : s[i] \in {32, 9}

\* qdtext and the second byte of a quoted-pair (RFC 7230)
QdTextChars == {9, 32, 33} \cup (35..91) \cup (93..126) \cup (128..255)
QuotedPairChars == {9} \cup (32..126) \cup (128..255)

\* what stands between the quotes of a quoted-string, and what it stands for
RECURSIVE IsQuotedText(_)
IsQuotedText(s) ==
    \/ s = << >>
    \/ s[1] \in QdTextChars /\ IsQuotedText(Tail(s))
    \/ s[1] = 92 /\ Len(s) >= 2 /\ s[2] \in QuotedPairChars
                 /\ IsQuotedText(Tail(Tail(s)))

RECURSIVE QuotedTextValue(_)
QuotedTextValue(s) ==
    IF s = << >> THEN << >>
    ELSE IF s[1] = 92 THEN <<s[2]>> \o QuotedTextValue(Tail(Tail(s)))
    ELSE <<s[1]>> \o QuotedTextValue(Tail(s))

IsQuotedString(s) ==
    Len(s) >= 2 /\ s[1] = 34 /\ s[Len(s)] = 34 /\ IsQuotedText(SubSeq(s, 2, Len(s) - 1))

\* parameter = token "=" ( token | quoted-string ), the "=" at position i
IsParameterAt(s, i) ==
    /\ IsTokenStr(SubSeq(s, 1, i - 1))
    /\ s[i] = 61
    /\ \/ IsTokenStr(SubSeq(s, i + 1, Len(s)))
       \/ IsQuotedString(SubSeq(s, i + 1, Len(s)))

\* OWS ";" OWS parameter, the ";" at position i and the parameter from j on
IsSectionAt(s, i, j) ==
    /\ i < j
    /\ IsOWS(SubSeq(s, 1, i - 1))
    /\ s[i] = 59
    /\ IsOWS(SubSeq(s, i + 1, j - 1))
    /\ \E k \in j..Len(s) : IsParameterAt(SubSeq(s, j, Len(s)), k - j + 1)

IsSection(s) == \E i, j \in 1..Len(s) : IsSectionAt(s, i, j)

\* the parameter of a section, with its value decoded
SectionParameter(s) ==
    LET j == CHOOSE j \in 1..Len(s) : \E i \in 1..Len(s) : IsSectionAt(s, i, j)
        p == SubSeq(s, j, Len(s))
        k == CHOOSE k \in 1..Len(p) : IsParameterAt(p, k)
        v == SubSeq(p, k + 1, Len(p))
    IN [key |-> SubSeq(p, 1, k - 1),
        value |-> IF v[1] = 34 THEN QuotedTextValue(SubSeq(v, 2, Len(v) - 1)) ELSE v]

\* *( OWS ";" OWS parameter )
RECURSIVE IsSections(_)
IsSections(s) ==
    \/ s = << >>
    \/ \E n \in 1..Len(s) :
          IsSection(SubSeq(s, 1, n)) /\ IsSections(SubSeq(s, n + 1, Len(s)))

RECURSIVE SectionParameters(_)
SectionParameters(s) ==
    IF s = << >> THEN << >>
    ELSE LET n == CHOOSE n \in 1..Len(s) :
                    IsSection(SubSeq(s, 1, n)) /\ IsSections(SubSeq(s, n + 1, Len(s)))
         IN <<SectionParameter(SubSeq(s, 1, n))>>
                \o SectionParameters(SubSeq(s, n + 1, Len(s)))

\* type "/" subtype *( OWS ";" OWS parameter ), the "/" at i, the subtype up to j
MatchesAt(s, i, j) ==
    /\ i < j
    /\ IsTokenStr(SubSeq(s, 1, i - 1))
    /\ s[i] = 47
    /\ IsTokenStr(SubSeq(s, i + 1, j))
    /\ IsSections(SubSeq(s, j + 1, Len(s)))

MatchesGrammar(s) == \E i, j \in 1..Len(s) : MatchesAt(s, i, j)

\* what the grammar says a matching header holds
GrammarValue(s) ==
    LET i == CHOOSE i \in 1..Len(s) : \E j \in 1..Len(s) : MatchesAt(s, i, j)
        j == CHOOSE j \in 1..Len(s) : MatchesAt(s, i, j)
    IN [type_ |-> SubSeq(s, 1, i - 1),
        subtype |-> SubSeq(s, i + 1, j),
        parameters |-> SectionParameters(SubSeq(s, j + 1, Len(s)))]

\* a parse and the iteration of its parameters have ended
Parsed == op = "parse" /\ pc = "idle"

\* what the parse and the iteration gave, the values decoded by Value::value
ParsedValue ==
    [type_ |-> Unwrap(locals.ct).type_,
     subtype |-> Unwrap(locals.ct).subtype,
     parameters |-> [i \in 1..Len(locals.items) |->
                        [key |-> locals.items[i].key,
                         value |-> Value_value(locals.items[i].value)]]]

\* C25: for every header that matches the grammar, the parse and the
\* iteration of the parameters succeed and give the type, the subtype and
\* the parameters in order, each with its decoded value; in particular
\* text/html; charset=UTF-8 gives text, html and charset=UTF-8,
\* application/json gives no parameter, "b\"c" decodes to b"c, and a quoted
\* value without closing quote is a parse error.
C25_ParsesGrammar ==
    Parsed =>
        /\ MatchesGrammar(locals.buf) =>
                result = Ok /\ ParsedValue = GrammarValue(locals.buf)
        /\ locals.buf = TextHtmlUtf8 =>
                /\ result = Ok
                /\ ParsedValue =
                     [type_ |-> <<116, 101, 120, 116>>,
                      subtype |-> <<104, 116, 109, 108>>,
                      parameters |-> <<[key |-> <<99, 104, 97, 114, 115, 101, 116>>,
                                        value |-> <<85, 84, 70, 45, 56>>]>>]
        /\ locals.buf = ApplicationJson =>
                /\ result = Ok
                /\ ParsedValue.parameters = << >>
        /\ locals.buf = <<116, 47, 104, 59, 97, 61, 34, 98, 92, 34, 99, 34>> =>
                /\ result = Ok
                /\ ParsedValue.parameters =
                     <<[key |-> <<97>>, value |-> <<98, 34, 99>>]>>
        /\ locals.buf = <<116, 47, 104, 59, 97, 61, 34, 98>> =>
                result = Err("InvalidContentType")

\* t/h ; a=b;a="b\"c" has been parsed: two parameters, the second unescaped
C25_Witness ==
    /\ Parsed
    /\ result = Ok
    /\ MatchesGrammar(locals.buf)
    /\ Len(locals.items) = 2
    /\ ~locals.items[2].value.copy
    /\ ParsedValue.parameters[1] = [key |-> <<97>>, value |-> <<98>>]
    /\ ParsedValue.parameters[2] = [key |-> <<97>>, value |-> <<98, 34, 99>>]

\* C26 as claimed: every header that does not match the grammar ends in a
\* parse error, from ContentType::parse or from the iteration of the
\* parameters.
C26_RejectsAllElse ==
    (Parsed /\ ~MatchesGrammar(locals.buf)) => ~result.ok

\* C22 as claimed: whatever the codec, a response whose status is not 200
\* is answered with the status-code error carrying that status.
C22_Only200Decoded ==
    (op = "from_response" /\ locals.status # 200) =>
        result = StatusCode(locals.status)

\* C23: into_request of the JSON and form codecs sets their Content-Type
\* when the parts hold none and leaves a Content-Type the caller supplied
\* exactly as given; the unit, raw-byte and text codecs add none.
C23_DefaultContentType ==
    (op = "into_request" /\ result.ok) =>
        locals.built.ct =
            IF IsSome(locals.ct) THEN locals.ct
            ELSE IF locals.codec = "json" THEN Some(JsonContentType)
            ELSE IF locals.codec = "form" THEN Some(FormContentType)
            ELSE None

\* the JSON codec has built a request from parts that held a Content-Type,
\* and the form codec one from parts that held none
C23_Witness ==
    /\ op = "into_request"
    /\ result.ok
    /\ \/ /\ locals.codec = "json"
          /\ IsSome(locals.ct)
          /\ locals.built.ct = locals.ct
          /\ locals.built.ct # Some(JsonContentType)
       \/ /\ locals.codec = "form"
          /\ IsNone(locals.ct)
          /\ locals.built.ct = Some(FormContentType)
    /\ locals.text # << >>

\* the parameters of a header that are named charset, in any case
CharsetParameters(h) ==
    {i \in 1..Len(GrammarValue(h).parameters) :
        to_ascii_lowercase(GrammarValue(h).parameters[i].key)
            = <<99, 104, 97, 114, 115, 101, 116>>}

TheCharset ==
    LET h == Unwrap(locals.ct)
    IN GrammarValue(h).parameters[CHOOSE i \in CharsetParameters(h) : TRUE].value

\* the caller supplied a Content-Type with one charset, and it is not UTF-8
ForeignCharset ==
    /\ IsSome(locals.ct)
    /\ MatchesGrammar(Unwrap(locals.ct))
    /\ Cardinality(CharsetParameters(Unwrap(locals.ct))) = 1
    /\ to_ascii_lowercase(TheCharset) \notin {LabelUtf8, LabelUtf8NoDash}

\* C24 as claimed: for the text, JSON and form codecs and a Content-Type of
\* the caller whose charset is not UTF-8, into_request succeeds with the
\* body transcoded when the charset is a recognized label, and fails with
\* InvalidEncoding exactly when it is not.
C24_TranscodesByCharset ==
    (/\ op = "into_request"
     /\ locals.codec \in {"text", "json", "form"}
     /\ ForeignCharset)
    => IF IsSome(for_label(TheCharset))
       THEN /\ result.ok
            /\ locals.built.body = encode(Unwrap(for_label(TheCharset)), locals.text)
       ELSE result = Err("InvalidEncoding")

-----------------------------------------------------------------------------
(* Claims about the content-access descriptor *)

\* the content URL the parser selects: the first that deserializes
SelectedUrl ==
    LET urls == Unwrap(locals.descriptor.urls)
    IN urls[CHOOSE i \in 1..Len(urls) :
                urls[i].valid /\ \A j \in 1..(i - 1) : ~urls[j].valid]

HasSelectedUrl ==
    /\ IsSome(locals.descriptor.urls)
    /\ \E i \in 1..Len(Unwrap(locals.descriptor.urls)) :
            Unwrap(locals.descriptor.urls)[i].valid

\* C27 as claimed: a parsed descriptor carries a content-key map exactly
\* when its content URL is DRM-flagged; a DRM-flagged descriptor without
\* ContentKeys and a descriptor without DRM that carries ContentKeys do not
\* parse, in the array form and in the object form.
C27_KeysIffDrm ==
    (op = "deserialize" /\ HasSelectedUrl) =>
        /\ result.ok => (IsSome(locals.parsed.value.content_keys) <=> SelectedUrl.drm)
        /\ (SelectedUrl.drm /\ locals.descriptor.keys = "absent") => ~result.ok
        /\ (~SelectedUrl.drm /\ locals.descriptor.keys # "absent") => ~result.ok

\* the key of a pair: what stands before its first '='
RECURSIVE PairKey(_)
PairKey(kv) ==
    IF kv = << >> THEN << >>
    ELSE IF kv[1] = 61 THEN << >>
    ELSE <<kv[1]>> \o PairKey(Tail(kv))

HasKeyB(kv) == PairKey(kv) \in {KeyB, Key62}

RECURSIVE Join(_)
Join(pairs) ==
    IF pairs = << >> THEN << >>
    ELSE IF Len(pairs) = 1 THEN pairs[1]
    ELSE pairs[1] \o <<38>> \o Join(Tail(pairs))

\* the pairs of a query other than those whose key is b
RECURSIVE KeptPairs(_)
KeptPairs(pairs) ==
    IF pairs = << >> THEN << >>
    ELSE IF pairs[1] = << >> \/ HasKeyB(pairs[1]) THEN KeptPairs(Tail(pairs))
    ELSE <<pairs[1]>> \o KeptPairs(Tail(pairs))

\* C28 as claimed: the query of the parsed URL is the query of the selected
\* URL without the pairs whose key is b or %62, the others in their order
\* and with their text; it is absent when no pair is left, and it is
\* the query as it was when no pair has the key b.
C28_TrackingPairsRemoved ==
    (op = "deserialize" /\ result.ok /\ IsSome(SelectedUrl.query)) =>
        LET pairs == split_amp(Unwrap(SelectedUrl.query), << >>)
        IN IF \E i \in 1..Len(pairs) : HasKeyB(pairs[i])
           THEN locals.parsed.value.query =
                    IF KeptPairs(pairs) = << >> THEN None
                    ELSE Some(Join(KeptPairs(pairs)))
           ELSE locals.parsed.value.query = SelectedUrl.query

-----------------------------------------------------------------------------
(* Claims about decryption *)

\* entry i of the output is entry i of the input, decrypted when the map
\* holds its name and copied otherwise
Transcoded(i) ==
    /\ locals.out[i].name = locals.input[i].name
    /\ IF locals.input[i].name \in locals.keys
       THEN locals.input[i].plain = Some(locals.out[i].content)
       ELSE locals.out[i].content = locals.input[i].content

\* C29 as claimed: the output container holds the entries of the input, with
\* their names and in their order, decrypted when the content-key map holds
\* the name and copied otherwise, and it is finalized only when every entry
\* has been processed without error.
C29_EntriesTranscoded ==
    (op = "download_zip" /\ locals.finalized) =>
        /\ Len(locals.out) = Len(locals.input)
        /\ \A i \in 1..Len(locals.out) : Transcoded(i)
        /\ result.ok

\* what holds of decrypt_zip: when it returns Ok, the container is finalized
\* and holds the entries of the input, decrypted or copied
C29_OkTranscoded ==
    (op = "download_zip" /\ pc = "idle" /\ result.ok) =>
        /\ locals.finalized
        /\ Len(locals.out) = Len(locals.input)
        /\ \A i \in 1..Len(locals.out) : Transcoded(i)

\* C30 as claimed: with content keys, the file at the output path is as it
\* was before the run until every entry of the container has been decrypted.
C30_OutputUntouchedBeforeSuccess ==
    (op = "download_zip" /\ ~locals.finalized) => locals.path = locals.before

-----------------------------------------------------------------------------
(* Claims about the parameter iterator after an error *)

\* the iterator has returned an error
IterFailed == \E i \in 1..Len(locals.items) : locals.items[i].item = "Err"

\* C33: once next() has returned an error, nothing of the header is left to
\* the iterator, the error is the last item it has returned, and the next
\* call and the one after it return the end of the iteration.
C33_NothingAfterError ==
    (op = "parse" /\ IterFailed) =>
        /\ locals.rest = << >>
        /\ locals.items[Len(locals.items)].item = "Err"
        /\ \A i \in 1..(Len(locals.items) - 1) : locals.items[i].item = "Ok"
        /\ Iter_next(locals.rest) = IterEnd(<< >>)
        /\ Iter_next(Iter_next(locals.rest).rest) = IterEnd(<< >>)

\* the header t/h;a=;a=b: the first parameter is malformed, a well-formed
\* one follows it, and the iteration has ended with the error alone
C33_Witness ==
    /\ op = "parse"
    /\ pc = "idle"
    /\ locals.buf = <<116, 47, 104, 59, 97, 61, 59, 97, 61, 98>>
    /\ Len(locals.items) = 1
    /\ locals.items[1].item = "Err"
    /\ result = Err("InvalidContentType")

-----------------------------------------------------------------------------
(* Claims about the request that follows a redirect *)

\* the cookies of the jar that belong to the host of url, as name=value pairs
CookiesFor(url) ==
    {[name |-> c.name, value |-> c.value] : c \in {m \in cookies : m.host = url.host}}

\* C34: a request sent to follow a redirect has no body, no Authorization
\* and no Content-Type: its headers are the fixed ones, with their fixed
\* values, and a Cookie header holding only cookies of the redirect target.
C34_FollowUpBare ==
    pc = "raw_request_loop_recv" =>
        /\ Unwrap(wire).method = "GET"
        /\ Unwrap(wire).body = "None"
        /\ "authorization" \notin DOMAIN Unwrap(wire).headers
        /\ "content-type" \notin DOMAIN Unwrap(wire).headers
        /\ DOMAIN Unwrap(wire).headers = DOMAIN FixedHeaders \cup {"cookie"}
        /\ CarriesFixedHeaders(Unwrap(wire).headers)
        /\ Unwrap(wire).headers["cookie"] \subseteq CookiesFor(Unwrap(wire).url)

\* the sign-in POST, sent with a bearer token and a form body, was answered
\* 307 with a relative Location and a cookie, and its follow-up is with the
\* Transport, carrying that cookie
C34_Witness ==
    /\ pc = "raw_request_loop_recv"
    /\ op = "simple_request"
    /\ hops = 1
    /\ ret.status = 307
    /\ ret.locs = <<RelLoc>>
    /\ resUrl = Url(OtherHost, "/ww/en/signin/signin")
    /\ Unwrap(wire).url = Url(OtherHost, "/moved")
    /\ Unwrap(wire).headers["cookie"] = {CookieS}

-----------------------------------------------------------------------------
(* Claims about the session a login leaves *)

\* C35 as claimed: when login returns Ok the session is fully logged in and
\* its user id is the userId parameter of the destination URL.
C35_OkMeansLoggedIn ==
    (op = "login" /\ pc = "idle" /\ result = Ok) =>
        /\ is_logged_in(store)
        /\ user_id(store) = locals.user_id

-----------------------------------------------------------------------------
(* Claims about the device id *)

\* C37: no step of the pipeline changes or removes a device id the session
\* holds; the stored device id changes only when the session holds none.
C37_DeviceIdKept ==
    [][IsSome(device_id(store)) => store'["DeviceId"] = store["DeviceId"]]_vars

\* a login on a session that held a device id has stored new tokens, a user
\* key and a user id, under the device id it began with
C37_Witness ==
    /\ op = "login"
    /\ pc = "idle"
    /\ result = Ok
    /\ obs.begin["DeviceId"] = Some(StrD)
    /\ store["DeviceId"] = Some(StrD)
    /\ store["AccessToken"] = Some(StrB)
    /\ is_logged_in(store)


\* C36 as claimed: whenever login_parameters is about to build the sign-in
\* URL, the session holds a device id, so that the unwrap of device_id() does
\* not meet an absent value.
C36_DeviceIdAtSignIn ==
    pc = "login_parameters" => IsSome(device_id(store))

-----------------------------------------------------------------------------
(* Claims about the files download_zip leaves *)

\* C31 as claimed: when download_zip ends with an error neither the
\* temporary download nor an unfinished output file is left; when it ends
\* with Ok the output file is there and the temporary download is not.
C31_NothingLeftOnError ==
    (op = "download_zip" /\ pc = "idle") =>
        /\ ~locals.tmp
        /\ IF result.ok THEN locals.path = "complete"
           ELSE locals.path \notin {"empty", "partial"}

\* C39 as claimed: after a successful download_zip with content keys the
\* output file is as long as the container the writer produced.
C39_NoBytesAfterContainer ==
    (op = "download_zip" /\ pc = "idle" /\ result.ok) =>
        locals.len = locals.written

-----------------------------------------------------------------------------
(* Claims about the registry of the temporary files *)

\* C32 as claimed: the handler works on the registry only while it holds the
\* mutex, and never while the main thread is inside insert or remove.
C32_RegistryUnderMutex ==
    locals.handler = "finalize" =>
        /\ locals.mutex = "handler"
        /\ pc \notin {"insert", "remove"}

\* C38 as claimed: a pass of the loop of Cleanup::insert either finds its key
\* vacant and returns it, or goes on to another key, so that the loop comes
\* to an end.
C38_InsertFindsKey ==
    pc = "insert" =>
        \/ locals.index \notin locals.files
        \/ next_index(locals.index) # locals.index

====
